---- MODULE Spec2Model ----
(***************************************************************************)
(* Model of the AbsaNet form filler (automation_broker.fillers.absanet):   *)
(* the fill-plan builder AbsaNetForm.build_fill_plan and the fill executor *)
(* AbsaNetForm.fill_from_plan, over PolicyData records and a mapping.      *)
(*                                                                         *)
(* SpecPlan  : a record and a mapping are assembled, then build_fill_plan  *)
(*             is called on them, and called again on the same objects.    *)
(* SpecExec  : fill_from_plan runs one loop iteration per action over a    *)
(*             plan, in dry-run or live mode, against a driver whose calls *)
(*             may fail.                                                   *)
(* SpecExecTabs : SpecExec over mappings whose tab entries may lack a key.  *)
(* SpecSelect2  : one call of selenium_helpers.fill_select2.                *)
(* SpecFillField: one call of field_fillers.fill_field.                     *)
(* SpecSelect   : the select branch of fill_field over concrete options.    *)
(* SpecPostEffect: one call of field_fillers.wait_for_field_post_effect.    *)
(***************************************************************************)
EXTENDS Integers, Sequences, FiniteSets, TLC

VARIABLES
    data,         \* the PolicyData record: field name -> value
    mapping,      \* the mapping dict: fields, tabs, select_value_map
    plan,         \* the list returned by build_fill_plan / given to fill_from_plan
    prevPlan,     \* the list returned by the previous call of build_fill_plan
    dry_run,      \* fill_from_plan's dry_run argument
    pc,           \* SpecPlan: "input" | "built" | "rebuilt"; SpecExec: "loop" | "done" | "raised"
    idx,          \* position of the for loop of fill_from_plan in the plan
    current_tab,  \* fill_from_plan's local current_tab
    logs,         \* fill_from_plan's local logs (the returned list)
    ops,          \* page-mutating driver operations issued so far, in order
    raised,       \* per processed step: did the try block of that iteration raise
    tab_calls,    \* the calls self._click_tab(mapping, tab) made so far: <<step index, tab>>
    attempts,     \* per processed step: the outcomes of the _attempt() calls of _fill_select2
    call,         \* helper specifications: the helper called and its arguments
    ret           \* helper specifications: what the call did and how it ended

vars == <<data, mapping, plan, prevPlan, dry_run, pc, idx, current_tab, logs, ops, raised,
          tab_calls, attempts, call, ret>>

\* ---------------------------------------------------------------- bounds
MaxFilled == 2
MaxUnmapped == 1
MaxPlanLen == 2

\* ---------------------------------------------------------------- Python values
\* A Python value is a record tagged with its type; None, str, int and float
\* values never compare equal across types (0 == "" is False in Python).
PyNone == [t |-> "none", s |-> "", n |-> 0]
PyStr(x) == [t |-> "str", s |-> x, n |-> 0]
PyInt(k) == [t |-> "int", s |-> "", n |-> k]
PyFloat(k) == [t |-> "float", s |-> "", n |-> k]

\* A key that a dict does not hold (dict.get then yields its default).
Missing == "<missing>"
\* tab_key: str | None
NoneTab == "<None>"

\* ---------------------------------------------------------------- models.py
\* The fields of the PolicyData dataclass, in declaration order.
PolicyFields ==
    << "cliente", "productor", "aseguradora", "riesgo", "moneda",
       "tipo_contacto_ssn", "tipo_iva", "tipo_renovacion", "clausula_ajuste",
       "cant_cuotas", "tipo_vigencia", "refacturacion", "inicio_vigencia",
       "anio", "marca", "modelo", "combustible", "vehiculo", "patente",
       "chasis", "motor", "prima_total", "premio_total", "numero_poliza",
       "fecha_emision", "vencimiento_primera_cuota" >>

FieldNames == { PolicyFields[i] : i \in 1..Len(PolicyFields) }

\* The declared type of each field (Optional[str] | Optional[int] | Optional[float]).
FieldType(f) ==
    IF f \in {"clausula_ajuste", "cant_cuotas", "anio"} THEN "int"
    ELSE IF f \in {"prima_total", "premio_total"} THEN "float"
    ELSE "str"

\* PolicyData(): every field defaults to None.
EmptyPolicyData == [f \in FieldNames |-> PyNone]

\* The values a field is given in this model: the empty string or a text for a
\* str field, 0 or a positive number for a numeric field.
FieldValues(f) ==
    CASE FieldType(f) = "int" -> {PyInt(0), PyInt(1)}
      [] FieldType(f) = "float" -> {PyFloat(0), PyFloat(1000)}
      [] OTHER -> {PyStr(""), PyStr("ALLIANZ")}

\* ---------------------------------------------------------------- mapping
\* A locator (selector) dict {by, value, type}; the empty dict holds no key.
Locator(by, value, type) == [by |-> by, value |-> value, type |-> type]
EmptyLocator == Locator(Missing, Missing, Missing)

\* dict.get(key) of mapping["fields"]: the locator, or None for an absent key.
NoLocator == Locator("<None>", "<None>", "<None>")
FieldsGet(fields, field_key) ==
    IF field_key \in DOMAIN fields THEN fields[field_key] ELSE NoLocator

\* Python truthiness of fields.get(key): None and {} are falsy.
Truthy(selector) == selector # NoLocator /\ selector # EmptyLocator

\* The widget type the form uses for each field (tests/test_absanet_refactored.py).
WidgetOf(f) ==
    CASE f \in {"aseguradora", "moneda", "tipo_iva", "tipo_renovacion",
                "tipo_vigencia", "tipo_contacto_ssn", "refacturacion",
                "clausula_ajuste", "cant_cuotas"} -> "select"
      [] f \in {"riesgo", "productor", "cliente", "marca", "anio"} -> "select2"
      [] f \in {"modelo"} -> "autocomplete"
      [] OTHER -> "input"

\* A mapping["fields"] that has a locator for every PolicyData field.
FullFields == [f \in FieldNames |-> Locator("id", f, WidgetOf(f))]

\* mapping.get("fields", {}) of a mapping without a "fields" key: the empty dict.
NoFields == [f \in {} |-> EmptyLocator]

\* mapping.get("tabs", {}) of a mapping without a "tabs" key.
NoTabs == [t \in {} |-> Missing]

\* mapping.get("select_value_map", {}) of a mapping without that key.
NoValueMap == [f \in {} |-> [v \in {} |-> PyNone]]

\* ---------------------------------------------------------------- build_fill_plan
\* One plan step: the tuple (field_key, action, value).
Step(field_key, selector, value, tab_key) ==
    << field_key,
       [type |-> "fill", selector |-> selector, value |-> value, tab |-> tab_key],
       value >>

\* add() without the "if not selector: return" test.
add_without_selector_test(st, field_key, value, tab_key) ==
    IF value \in {PyNone, PyStr("")} THEN st
    ELSE LET selector == FieldsGet(st.fields, field_key) IN
         [st EXCEPT !.plan = Append(@, Step(field_key, selector, value, tab_key))]

\* add() taking the locator with fields.pop(field_key, None) instead of fields.get.
add_popping_locator(st, field_key, value, tab_key) ==
    IF value \in {PyNone, PyStr("")} THEN st
    ELSE LET selector == FieldsGet(st.fields, field_key) IN
         IF ~Truthy(selector)
         THEN [st EXCEPT !.fields = [g \in DOMAIN @ \ {field_key} |-> @[g]]]
         ELSE [plan |-> Append(st.plan, Step(field_key, selector, value, tab_key)),
               fields |-> [g \in DOMAIN st.fields \ {field_key} |-> st.fields[g]]]

\* The closure add() of build_fill_plan. st holds the two variables the closure
\* captures: the plan list it appends to and the fields dict it reads.
add(st, field_key, value, tab_key) ==
    IF value \in {PyNone, PyStr("")} THEN st
    ELSE LET selector == FieldsGet(st.fields, field_key) IN
         IF ~Truthy(selector) THEN st
         ELSE [st EXCEPT !.plan = Append(@, Step(field_key, selector, value, tab_key))]

\* The add(...) calls of build_fill_plan in program order: the field key, the
\* PolicyData attribute read for the value, and the tab_key argument.
AddCall(field_key, attr, tab_key) == [field_key |-> field_key, attr |-> attr, tab_key |-> tab_key]
AddCalls ==
    << AddCall("productor", "productor", "condiciones"),
       AddCall("aseguradora", "aseguradora", "condiciones"),
       AddCall("riesgo", "riesgo", "condiciones"),
       AddCall("cliente", "cliente", "condiciones"),
       AddCall("moneda", "moneda", "condiciones"),
       AddCall("tipo_contacto_ssn", "tipo_contacto_ssn", "condiciones"),
       AddCall("tipo_iva", "tipo_iva", "condiciones"),
       AddCall("tipo_renovacion", "tipo_renovacion", "condiciones"),
       AddCall("clausula_ajuste", "clausula_ajuste", "condiciones"),
       AddCall("tipo_vigencia", "tipo_vigencia", "condiciones"),
       AddCall("inicio_vigencia", "inicio_vigencia", "condiciones"),
       AddCall("refacturacion", "refacturacion", "condiciones"),
       AddCall("marca", "marca", "vehiculo"),
       AddCall("anio", "anio", "vehiculo"),
       AddCall("patente", "patente", "vehiculo"),
       AddCall("chasis", "chasis", "vehiculo"),
       AddCall("motor", "motor", "vehiculo"),
       AddCall("prima_total", "prima_total", "montos"),
       AddCall("premio_total", "premio_total", "montos"),
       AddCall("numero_poliza", "numero_poliza", "montos"),
       AddCall("fecha_emision", "fecha_emision", "montos"),
       AddCall("vencimiento_primera_cuota", "vencimiento_primera_cuota", "montos") >>

\* The add calls of the list cs from the k-th on, applied in order to the
\* closure state st, each reading its value from the record d.
RECURSIVE RunAddCalls(_, _, _, _)
RunAddCalls(cs, st, d, k) ==
    IF k > Len(cs) THEN st
    ELSE RunAddCalls(cs, add(st, cs[k].field_key, d[cs[k].attr], cs[k].tab_key), d, k + 1)

\* The list cs with the calls for the fields a and b exchanged.
SwapCalls(cs, a, b) ==
    [k \in 1..Len(cs) |->
        IF cs[k].field_key = a THEN CHOOSE c \in {cs[j] : j \in 1..Len(cs)} : c.field_key = b
        ELSE IF cs[k].field_key = b THEN CHOOSE c \in {cs[j] : j \in 1..Len(cs)} : c.field_key = a
        ELSE cs[k]]

\* build_fill_plan adding riesgo before aseguradora.
build_fill_plan_riesgo_first(d, m) ==
    RunAddCalls(SwapCalls(AddCalls, "aseguradora", "riesgo"),
                [plan |-> << >>, fields |-> m.fields], d, 1)

\* build_fill_plan with the add calls of patente and prima_total exchanged.
build_fill_plan_montos_early(d, m) ==
    RunAddCalls(SwapCalls(AddCalls, "patente", "prima_total"),
                [plan |-> << >>, fields |-> m.fields], d, 1)

\* build_fill_plan(data, mapping): the returned plan, and the fields dict as the
\* call leaves it.
build_fill_plan(d, m) ==
    RunAddCalls(AddCalls, [plan |-> << >>, fields |-> m.fields], d, 1)

\* No helper call is in progress.
NoCall == [fn |-> "<none>"]

\* ---------------------------------------------------------------- SpecPlan
Filled == { f \in FieldNames : data[f] # PyNone }
Unmapped == { f \in FieldNames : ~Truthy(FieldsGet(mapping.fields, f)) }

InitPlan ==
    /\ data = EmptyPolicyData
    /\ mapping = [fields |-> FullFields, tabs |-> NoTabs, select_value_map |-> NoValueMap]
    /\ plan = << >>
    /\ prevPlan = << >>
    /\ dry_run = TRUE
    /\ pc = "input"
    /\ idx = 1
    /\ current_tab = NoneTab
    /\ logs = << >>
    /\ ops = << >>
    /\ raised = << >>
    /\ tab_calls = << >>
    /\ attempts = << >>
    /\ call = NoCall
    /\ ret = NoCall

execVars == <<dry_run, idx, current_tab, logs, ops, raised, tab_calls, attempts, call, ret>>

\* A field of the record is given a value (PolicyData(...) keyword, or an
\* attribute assignment as the parser makes them).
SetField ==
    /\ pc = "input"
    /\ Cardinality(Filled) < MaxFilled
    /\ \E f \in FieldNames \ Filled : \E v \in FieldValues(f) :
          data' = [data EXCEPT ![f] = v]
    /\ UNCHANGED <<mapping, plan, prevPlan, pc, execVars>>

\* The mapping file has no entry for a field that carries a value.
RemoveLocator ==
    /\ pc = "input"
    /\ Cardinality(Unmapped) < MaxUnmapped
    /\ \E f \in Filled \ Unmapped :
          mapping' = [mapping EXCEPT !.fields = [g \in DOMAIN @ \ {f} |-> @[g]]]
    /\ UNCHANGED <<data, plan, prevPlan, pc, execVars>>

\* The mapping file has an empty entry ("field: {}") for a field that carries a value.
EmptyLocatorEntry ==
    /\ pc = "input"
    /\ Cardinality(Unmapped) < MaxUnmapped
    /\ \E f \in Filled \ Unmapped :
          mapping' = [mapping EXCEPT !.fields[f] = EmptyLocator]
    /\ UNCHANGED <<data, plan, prevPlan, pc, execVars>>

\* The mapping file has no "fields" section at all.
NoFieldsSection ==
    /\ pc = "input"
    /\ Unmapped = {}
    /\ mapping' = [mapping EXCEPT !.fields = NoFields]
    /\ UNCHANGED <<data, plan, prevPlan, pc, execVars>>

\* plan = form.build_fill_plan(data, mapping)
BuildPlan ==
    /\ pc \in {"input", "built"}
    /\ LET r == build_fill_plan(data, mapping) IN
          /\ plan' = r.plan
          /\ mapping' = [mapping EXCEPT !.fields = r.fields]
    /\ prevPlan' = plan
    /\ pc' = IF pc = "input" THEN "built" ELSE "rebuilt"
    /\ UNCHANGED <<data, execVars>>

NextPlan == SetField \/ RemoveLocator \/ EmptyLocatorEntry \/ NoFieldsSection \/ BuildPlan

SpecPlan == InitPlan /\ [][NextPlan]_vars

\* ---------------------------------------------------------------- Python helpers
\* str.lower() on the strings that occur as "by" and "type" entries of a selector.
Lower(x) ==
    CASE x = "ID" -> "id"
      [] x = "CSS" -> "css"
      [] x = "XPATH" -> "xpath"
      [] x = "NAME" -> "name"
      [] x \in {"Id", "iD"} -> "id"
      [] x \in {"Css", "cSS", "CsS"} -> "css"
      [] x \in {"XPath", "Xpath", "xPATH"} -> "xpath"
      [] x \in {"Name", "nAmE"} -> "name"
      [] x = "CLASS NAME" -> "class name"
      [] x = "Select" -> "select"
      [] x = "Select2" -> "select2"
      [] x = "Input" -> "input"
      [] OTHER -> x

\* The decimal digits of a natural number.
Digit(d) ==
    CASE d = 0 -> "0" [] d = 1 -> "1" [] d = 2 -> "2" [] d = 3 -> "3" [] d = 4 -> "4"
      [] d = 5 -> "5" [] d = 6 -> "6" [] d = 7 -> "7" [] d = 8 -> "8" [] OTHER -> "9"

RECURSIVE IntStr(_)
IntStr(k) == IF k < 10 THEN Digit(k) ELSE IntStr(k \div 10) \o Digit(k % 10)

\* str(value) of a Python value.
py_str(v) ==
    CASE v.t = "str" -> v.s
      [] v.t = "int" -> IntStr(v.n)
      [] v.t = "float" -> IntStr(v.n) \o ".0"
      [] OTHER -> "None"

\* dict.get(key, default) on a selector dict.
SelectorGet(selector, key, default) ==
    IF selector[key] = Missing THEN default ELSE selector[key]

\* The function looking s up as it is written.
by_from_string_case_sensitive(x) ==
    CASE x = "id" -> "id"
      [] x = "css" -> "css selector"
      [] x = "xpath" -> "xpath"
      [] x = "name" -> "name"
      [] OTHER -> "css selector"

\* _by_from_string(s): the selenium By strategy.
by_from_string(x) ==
    LET l == Lower(x) IN
    CASE l = "id" -> "id"
      [] l = "css" -> "css selector"
      [] l = "xpath" -> "xpath"
      [] l = "name" -> "name"
      [] OTHER -> "css selector"

\* ---------------------------------------------------------------- driver operations
\* One page-mutating operation issued on the driver while the step of field_key
\* is processed; ok tells whether the call returned normally.
Op(op, field_key, target, arg, ok) ==
    [op |-> op, field |-> field_key, target |-> target, arg |-> arg, ok |-> ok]

\* _close_any_select2(driver, wait): when the page has an open select2 search
\* box, ESCAPE is sent to it; every exception is swallowed.
close_any_select2(o, field_key, overlayOpen) ==
    IF overlayOpen
    THEN Append(o, Op("send_keys", field_key, ".select2-container--open .select2-search__field",
                      PyStr("ESCAPE"), TRUE))
    ELSE o

\* A tab entry of mapping["tabs"]: its "click" is a dict {by, value} or a plain string.
TabEntry(click_is_dict, by, value) == [click_is_dict |-> click_is_dict, by |-> by, value |-> value]

\* _click_tab(mapping, tab_key): nothing for an unmapped tab; else the tab is
\* waited for and clicked, any exception of the wait or the click swallowed.
\* clickable: did wait.until(element_to_be_clickable) return the element and
\* the click go through.
click_tab(o, m, tab_key, field_key, clickable) ==
    IF tab_key \notin DOMAIN m.tabs THEN o
    ELSE LET tab == m.tabs[tab_key]
             by == IF tab.click_is_dict THEN by_from_string(tab.by) ELSE "css selector"
             value == tab.value
         IN IF clickable
            THEN Append(o, Op("click", field_key, by, PyStr(value), TRUE))
            ELSE o

\* The two lookups tab["click"]["by"] and tab["click"]["value"] of _click_tab
\* stand before its try: with a dict click that lacks one of the keys they
\* raise KeyError out of _click_tab.
click_tab_raises(m, tab_key) ==
    /\ tab_key \in DOMAIN m.tabs
    /\ m.tabs[tab_key].click_is_dict
    /\ (m.tabs[tab_key].by = Missing \/ m.tabs[tab_key].value = Missing)

\* ---------------------------------------------------------------- log lines
SwitchedLine(tab) == [kind |-> "switched", key |-> tab]
WouldFillLine(field_key, mapped_value, by, sel, typ) ==
    [kind |-> "would_fill", key |-> field_key, value |-> mapped_value,
     by |-> by, sel |-> sel, typ |-> typ]
FilledLine(field_key) == [kind |-> "filled", key |-> field_key]
ErrorLine(field_key) == [kind |-> "error", key |-> field_key]

\* ---------------------------------------------------------------- fill_from_plan
\* The translation applied whatever the type of the widget.
mapped_value_of_any_type(field_key, value, typ, value_map) ==
    LET m == IF field_key \in DOMAIN value_map THEN value_map[field_key]
             ELSE [v \in {} |-> PyNone]
    IN IF value \in DOMAIN m THEN m[value]
       ELSE IF PyStr(py_str(value)) \in DOMAIN m /\ m[PyStr(py_str(value))] # PyNone
            THEN m[PyStr(py_str(value))]
            ELSE value

\* The translation of the value for a native select: m[value] if the raw value
\* is a key, else m[str(value)] if that is one, else the raw value.
mapped_value_of(field_key, value, typ, value_map) ==
    IF typ # "select" THEN value
    ELSE LET m == IF field_key \in DOMAIN value_map THEN value_map[field_key]
                  ELSE [v \in {} |-> PyNone]
         IN IF value \in DOMAIN m THEN m[value]
            ELSE IF PyStr(py_str(value)) \in DOMAIN m /\ m[PyStr(py_str(value))] # PyNone
                 THEN m[PyStr(py_str(value))]
                 ELSE value

\* The head of an iteration switching to the step's tab whenever it is set.
step_head_switching_every_step(step, m, cur, lg, o, overlayOpen, clickable) ==
    LET field_key == step[1]
        action == step[2]
        value == step[3]
        o1 == close_any_select2(o, field_key, overlayOpen)
        tab == action.tab
        switch == tab # NoneTab
        selector == action.selector
        typ == Lower(SelectorGet(selector, "type", "input"))
    IN [ops |-> IF switch THEN click_tab(o1, m, tab, field_key, clickable) ELSE o1,
        click_tab_args |-> IF switch THEN <<tab>> ELSE << >>,
        tab_raised |-> switch /\ click_tab_raises(m, tab),
        overlay_ops |-> o1,
        current_tab |-> IF switch THEN tab ELSE cur,
        logs |-> IF switch THEN Append(lg, SwitchedLine(tab)) ELSE lg,
        by |-> by_from_string(SelectorGet(selector, "by", "css")),
        sel |-> SelectorGet(selector, "value", "<None>"),
        typ |-> typ,
        mapped_value |-> mapped_value_of(field_key, value, typ, m.select_value_map)]

\* The head of one loop iteration, up to the dry_run test: the stray overlay is
\* closed, the tab is switched when it is set and differs from current_tab, and
\* the selector is resolved.
step_head(step, m, cur, lg, o, overlayOpen, clickable) ==
    LET field_key == step[1]
        action == step[2]
        value == step[3]
        o1 == close_any_select2(o, field_key, overlayOpen)
        tab == action.tab
        switch == tab # NoneTab /\ tab # cur
        selector == action.selector
        typ == Lower(SelectorGet(selector, "type", "input"))
    IN [ops |-> IF switch THEN click_tab(o1, m, tab, field_key, clickable) ELSE o1,
        click_tab_args |-> IF switch THEN <<tab>> ELSE << >>,
        tab_raised |-> switch /\ click_tab_raises(m, tab),
        overlay_ops |-> o1,
        current_tab |-> IF switch THEN tab ELSE cur,
        logs |-> IF switch THEN Append(lg, SwitchedLine(tab)) ELSE lg,
        by |-> by_from_string(SelectorGet(selector, "by", "css")),
        sel |-> SelectorGet(selector, "value", "<None>"),
        typ |-> typ,
        mapped_value |-> mapped_value_of(field_key, value, typ, m.select_value_map)]

\* The dry_run branch continuing before it logs.
dry_run_branch_without_log(lg, field_key, h) == lg

\* The dry_run branch: the intended action is logged.
dry_run_branch(lg, field_key, h) ==
    Append(lg, WouldFillLine(field_key, h.mapped_value, h.by, h.sel, h.typ))

\* The widget filler of the try block for an element that was located: the
\* element is scrolled into view, then filled by the algorithm of its type.
\* fillOk: did the algorithm return normally.
widget_fill(o, field_key, h, fillOk) ==
    LET o1 == Append(o, Op("execute_script", field_key, "scrollIntoView", PyNone, TRUE)) IN
    CASE h.typ = "select" ->
            Append(o1, Op("select", field_key, h.sel, h.mapped_value, fillOk))
      [] h.typ = "select2" ->
            Append(o1, Op("fill_select2", field_key, h.sel, PyStr(py_str(h.mapped_value)), fillOk))
      [] h.typ = "autocomplete" ->
            Append(o1, Op("fill_autocomplete", field_key, h.sel, PyStr(py_str(h.mapped_value)), fillOk))
      [] OTHER ->
            Append(Append(o1, Op("clear", field_key, h.sel, PyNone, TRUE)),
                   Op("send_keys", field_key, h.sel, PyStr(py_str(h.mapped_value)), fillOk))

\* The end of the try block after the filler returned: the success is logged.
on_filled(lg, field_key) == [logs |-> Append(lg, FilledLine(field_key)), continue |-> TRUE]

\* The except clause logging the error and raising it again.
on_exception_reraising(lg, field_key) == [logs |-> Append(lg, ErrorLine(field_key)), continue |-> FALSE]

\* The except clause of the try block: the error is logged and the loop continues.
on_exception(lg, field_key) == [logs |-> Append(lg, ErrorLine(field_key)), continue |-> TRUE]

\* ---------------------------------------------------------------- _fill_select2
\* The number of _attempt() calls of the retry loop (for _ in range(3)).
SelectAttempts == 3

\* What the page did during one _attempt(): exc is the exception a driver call
\* outside the inner try blocks raised ("none", or "webdriver" for a
\* WebDriverException, its subclass StaleElementReferenceException included),
\* rendered_ok tells whether the rendered text became the query or the value
\* before the end of the verification poll.
AttemptOutcome(exc, rendered_ok) == [exc |-> exc, rendered_ok |-> rendered_ok]

AttemptOutcomes ==
    { AttemptOutcome("none", TRUE), AttemptOutcome("none", FALSE),
      AttemptOutcome("webdriver", FALSE) }

\* _fill_select2._attempt(): the exception of the driver goes up; otherwise
\* the verification poll ends at a match or at its deadline, and True is
\* returned either way.
_attempt(out) == IF out.exc # "none" THEN "raise" ELSE "True"

\* The retry loop returning at once when an attempt raised.
RECURSIVE retry_loop_without_retry(_, _)
retry_loop_without_retry(results, k) ==
    IF k > SelectAttempts THEN [made |-> SelectAttempts, raised |-> TRUE]
    ELSE IF results[k] = "True" THEN [made |-> k, raised |-> FALSE]
    ELSE [made |-> k, raised |-> TRUE]

\* The retry loop going on after an attempt that returned True.
RECURSIVE retry_loop_never_returning(_, _)
retry_loop_never_returning(results, k) ==
    IF k > SelectAttempts THEN [made |-> SelectAttempts, raised |-> TRUE]
    ELSE retry_loop_never_returning(results, k + 1)

\* The retry loop of _fill_select2 and of fill_select2, from its k-th pass:
\* return when _attempt() returns True, go on when it returns False or raises
\* a stale or driver exception, raise StaleElementReferenceException after the
\* last pass. results[k] is what the k-th _attempt() does; made counts the
\* _attempt() calls.
RECURSIVE retry_loop(_, _)
retry_loop(results, k) ==
    IF k > SelectAttempts THEN [made |-> SelectAttempts, raised |-> TRUE]
    ELSE IF results[k] = "True" THEN [made |-> k, raised |-> FALSE]
    ELSE retry_loop(results, k + 1)

\* _fill_select2(driver, base_el, value, wait) on a page that answers the
\* attempts with outs.
_fill_select2(outs) == retry_loop([k \in 1..SelectAttempts |-> _attempt(outs[k])], 1)

\* ---------------------------------------------------------------- SpecExec inputs
\* A mapping["tabs"] with a dict click for condiciones and a plain-string click
\* for vehiculo, and none for montos.
SomeTabs ==
    [t \in {"condiciones", "vehiculo"} |->
        IF t = "condiciones" THEN TabEntry(TRUE, "CSS", "#tab-condiciones")
        ELSE TabEntry(FALSE, Missing, "#tab-vehiculo")]

\* A select_value_map with a raw-value key and a string key.
SomeValueMap ==
    [f \in {"aseguradora", "clausula_ajuste"} |->
        IF f = "aseguradora" THEN [v \in {PyStr("ALLIANZ")} |-> PyStr("Allianz Argentina")]
        ELSE [v \in {PyStr("1")} |-> PyStr("SI")]]

\* The steps plans are made of: steps build_fill_plan produces for a full
\* mapping, and a hand-made step with an empty selector and no tab.
StepPool ==
    { Step("aseguradora", FullFields["aseguradora"], PyStr("ALLIANZ"), "condiciones"),
      Step("riesgo", FullFields["riesgo"], PyStr("AUTO"), "condiciones"),
      Step("patente", Locator("ID", "Patente", Missing), PyStr("ABC123"), "vehiculo"),
      Step("clausula_ajuste", EmptyLocator, PyInt(1), NoneTab) }

Plans == UNION { [1..n -> StepPool] : n \in 0..MaxPlanLen }

\* The start of fill_from_plan(plan, mapping, dry_run) with mapping["tabs"]
\* one of tabSets.
InitExecWith(tabSets) ==
    /\ data = EmptyPolicyData
    /\ \E tabs \in tabSets :
          mapping = [fields |-> FullFields, tabs |-> tabs, select_value_map |-> SomeValueMap]
    /\ plan \in Plans
    /\ prevPlan = << >>
    /\ dry_run \in BOOLEAN
    /\ pc = "loop"
    /\ idx = 1
    /\ current_tab = NoneTab
    /\ logs = << >>
    /\ ops = << >>
    /\ raised = << >>
    /\ tab_calls = << >>
    /\ attempts = << >>
    /\ call = NoCall
    /\ ret = NoCall

InitExec == InitExecWith({NoTabs, SomeTabs})

\* The calls of self._click_tab one iteration makes, tagged with the step index.
TabCallsOf(i, h) == [k \in 1..Len(h.click_tab_args) |-> <<i, h.click_tab_args[k]>>]

\* One iteration of the for loop with dry_run set.
DryRunStep ==
    /\ pc = "loop" /\ idx <= Len(plan) /\ dry_run
    /\ \E overlayOpen \in BOOLEAN, clickable \in BOOLEAN :
          LET h == step_head(plan[idx], mapping, current_tab, logs, ops, overlayOpen, clickable) IN
          /\ ~h.tab_raised
          /\ ops' = h.ops
          /\ current_tab' = h.current_tab
          /\ tab_calls' = tab_calls \o TabCallsOf(idx, h)
          /\ logs' = dry_run_branch(h.logs, plan[idx][1], h)
    /\ raised' = Append(raised, FALSE)
    /\ attempts' = Append(attempts, << >>)
    /\ idx' = idx + 1
    /\ UNCHANGED <<data, mapping, plan, prevPlan, dry_run, pc, call, ret>>

\* Is the step one the try block fills with _fill_select2.
Select2Step(step) == Lower(SelectorGet(step[2].selector, "type", "input")) = "select2"

\* The page of a step that makes no attempt of _fill_select2.
NoAttempts == [k \in 1..SelectAttempts |-> AttemptOutcome("none", TRUE)]

\* One iteration of the for loop in live mode. located: did
\* wait.until(presence_of_element_located) return the element; outs: what the
\* page does on the attempts of _fill_select2; otherOk: did the filler of
\* another widget type return normally.
LiveStep ==
    /\ pc = "loop" /\ idx <= Len(plan) /\ ~dry_run
    /\ \E overlayOpen \in BOOLEAN, clickable \in BOOLEAN, located \in BOOLEAN :
       \E otherOk \in IF Select2Step(plan[idx]) THEN {TRUE} ELSE BOOLEAN,
          outs \in IF located /\ Select2Step(plan[idx])
                   THEN [1..SelectAttempts -> AttemptOutcomes] ELSE {NoAttempts} :
          LET h == step_head(plan[idx], mapping, current_tab, logs, ops, overlayOpen, clickable)
              field_key == plan[idx][1]
              is_select2 == located /\ h.typ = "select2"
              run == _fill_select2(outs)
              fillOk == IF h.typ = "select2" THEN ~run.raised ELSE otherOk
              ok == located /\ fillOk
              r == IF ok THEN on_filled(h.logs, field_key) ELSE on_exception(h.logs, field_key)
          IN
          /\ ~h.tab_raised
          /\ ops' = IF located THEN widget_fill(h.ops, field_key, h, fillOk) ELSE h.ops
          /\ current_tab' = h.current_tab
          /\ tab_calls' = tab_calls \o TabCallsOf(idx, h)
          /\ logs' = r.logs
          /\ raised' = Append(raised, ~ok)
          /\ attempts' = Append(attempts, IF is_select2 THEN SubSeq(outs, 1, run.made) ELSE << >>)
          /\ pc' = IF r.continue THEN "loop" ELSE "raised"
    /\ idx' = idx + 1
    /\ UNCHANGED <<data, mapping, plan, prevPlan, dry_run, call, ret>>

\* The loop is over: return logs.
ReturnLogs ==
    /\ pc = "loop" /\ idx > Len(plan)
    /\ pc' = "done"
    /\ UNCHANGED <<data, mapping, plan, prevPlan, dry_run, idx, current_tab, logs, ops, raised,
                   tab_calls, attempts, call, ret>>

NextExec == DryRunStep \/ LiveStep \/ ReturnLogs

SpecExec == InitExec /\ [][NextExec]_vars

\* ---------------------------------------------------------------- SpecExecTabs
\* A mapping["tabs"] whose condiciones entry has a dict click without "by"
\* (click: {value: "#tab-condiciones"}), as selectors may omit it.
BrokenTabs ==
    [t \in {"condiciones", "vehiculo"} |->
        IF t = "condiciones" THEN TabEntry(TRUE, Missing, "#tab-condiciones")
        ELSE TabEntry(FALSE, Missing, "#tab-vehiculo")]

InitExecTabs == InitExecWith({NoTabs, SomeTabs, BrokenTabs})

\* An iteration whose call of self._click_tab raises: the exception leaves
\* fill_from_plan, after the stray overlay was closed.
TabLookupRaises ==
    /\ pc = "loop" /\ idx <= Len(plan)
    /\ \E overlayOpen \in BOOLEAN :
          LET h == step_head(plan[idx], mapping, current_tab, logs, ops, overlayOpen, FALSE) IN
          /\ h.tab_raised
          /\ ops' = h.overlay_ops
          /\ tab_calls' = tab_calls \o TabCallsOf(idx, h)
    /\ pc' = "raised"
    /\ UNCHANGED <<data, mapping, plan, prevPlan, dry_run, idx, current_tab, logs, raised,
                   attempts, call, ret>>

NextExecTabs == NextExec \/ TabLookupRaises

SpecExecTabs == InitExecTabs /\ [][NextExecTabs]_vars

\* fill_from_plan runs on: the interpreter takes the next iteration of the
\* loop, and the return after the last, whenever the calls made so far have
\* returned.
SpecExecTabsLive == SpecExecTabs /\ WF_vars(NextExecTabs)

\* ---------------------------------------------------------------- helper specifications
\* The variables of the form object, which a call of a helper function leaves alone.
formVars == <<data, mapping, plan, prevPlan, dry_run, idx, current_tab, logs, ops, raised,
              tab_calls, attempts>>

\* No plan is being built or executed.
InitIdleForm ==
    /\ data = EmptyPolicyData
    /\ mapping = [fields |-> FullFields, tabs |-> NoTabs, select_value_map |-> NoValueMap]
    /\ plan = << >>
    /\ prevPlan = << >>
    /\ dry_run = FALSE
    /\ idx = 1
    /\ current_tab = NoneTab
    /\ logs = << >>
    /\ ops = << >>
    /\ raised = << >>
    /\ tab_calls = << >>
    /\ attempts = << >>

\* ---------------------------------------------------------------- fill_select2
\* The ids of the base select elements fill_select2 treats specially, another
\* id, and an element without id.
SelectIds == {"idRiesgo", "idCliente", "idProductor", "idMoneda", ""}

\* What the page does during one _attempt() of fill_select2: exc ("none",
\* "stale", "driver") is raised by the unguarded driver call of phase at;
\* without exception, rendered_ok tells whether the rendered text became the
\* query or the value before the verification deadline, and hidden_set whether
\* the hidden select has a non-empty value.
Select2Outcome(exc, at, rendered_ok, hidden_set) ==
    [exc |-> exc, at |-> at, rendered_ok |-> rendered_ok, hidden_set |-> hidden_set]

Select2Outcomes(select_id) ==
    { Select2Outcome("none", "-", r, h) : r \in BOOLEAN, h \in BOOLEAN }
    \cup { Select2Outcome(e, a, FALSE, FALSE) :
              e \in {"stale", "driver"},
              a \in (IF select_id = "" THEN {} ELSE {"find_element"}) \cup {"open"} }

\* The phases of one _attempt(), in order.
AttemptPhases(select_id) ==
    (IF select_id # "" THEN <<"find_element">> ELSE << >>)
    \o (IF select_id = "idRiesgo" THEN <<"riesgo_guard">> ELSE << >>)
    \o <<"close_any_select2", "open", "type", "choose", "verify">>
    \o (IF select_id = "idRiesgo" THEN <<"riesgo_check">> ELSE << >>)
    \o (IF select_id = "idCliente" THEN <<"cliente_check">> ELSE << >>)
    \o <<"blur">>

\* The prefix of a sequence of phases up to its first occurrence of phase.
UpTo(phases, phase) ==
    SubSeq(phases, 1, CHOOSE k \in 1..Len(phases) :
                          phases[k] = phase /\ \A j \in 1..(k - 1) : phases[j] # phase)

\* fill_select2._attempt(): the phases run until one raises; the verification
\* poll ends at a match or at its deadline without raising; for idRiesgo the
\* attempt returns False when neither the rendered text nor the hidden value
\* shows the selection; otherwise it blurs and returns True.
fill_select2_attempt(select_id, out) ==
    LET phases == AttemptPhases(select_id) IN
    IF out.exc # "none" THEN [result |-> "raise", phases |-> UpTo(phases, out.at)]
    ELSE IF select_id = "idRiesgo" /\ ~(out.rendered_ok \/ out.hidden_set)
         THEN [result |-> "False", phases |-> UpTo(phases, "riesgo_check")]
         ELSE [result |-> "True", phases |-> phases]

\* fill_select2(driver, base_el, value, wait) on a page that answers the
\* attempts with outs: the retry loop over _attempt(), with the phases each
\* attempt that was made went through.
fill_select2(select_id, outs) ==
    LET res == [k \in 1..SelectAttempts |-> fill_select2_attempt(select_id, outs[k])]
        run == retry_loop([k \in 1..SelectAttempts |-> res[k].result], 1)
    IN [made |-> run.made, raised |-> run.raised,
        trace |-> [k \in 1..run.made |-> res[k].phases]]

InitSelect2 ==
    /\ InitIdleForm
    /\ pc = "call"
    /\ \E select_id \in SelectIds :
       \E outs \in [1..SelectAttempts -> Select2Outcomes(select_id)] :
          call = [fn |-> "fill_select2", select_id |-> select_id, outs |-> outs]
    /\ ret = NoCall

\* fill_select2(driver, base_el, value, wait)
CallFillSelect2 ==
    /\ pc = "call"
    /\ ret' = fill_select2(call.select_id, call.outs)
    /\ pc' = IF ret'.raised THEN "raised" ELSE "returned"
    /\ UNCHANGED <<formVars, call>>

NextSelect2 == CallFillSelect2

SpecSelect2 == InitSelect2 /\ [][NextSelect2]_vars

\* ---------------------------------------------------------------- fill_field
\* str(value).strip(), cut at its first space, on the values that occur.
DatePart(x) ==
    CASE x = "01/01/2025 00:00:00" -> "01/01/2025"
      [] OTHER -> x

\* The clear / send_keys(date_text) / send_keys(TAB) of the fallback: a
\* raising clear is swallowed and typing goes on; the two send_keys share one
\* try, so TAB is sent only after the date was typed. keysSent: how many of
\* the two send_keys returned before one raised (2: both returned).
typing_fallback(o, field_key, sel, date_text, clearOk, keysSent) ==
    LET o1 == Append(o, Op("clear", field_key, sel, PyNone, clearOk))
        o2 == Append(o1, Op("send_keys", field_key, sel, date_text, keysSent >= 1))
    IN IF keysSent >= 1
       THEN Append(o2, Op("send_keys", field_key, sel, PyStr("TAB"), keysSent >= 2))
       ELSE o2

\* The special handling with the typing fallback run after every direct write.
set_inicio_vigencia_always_typing(o, field_key, sel, value, scriptOk, clearOk, keysSent) ==
    LET date_text == PyStr(DatePart(py_str(value)))
        o1 == Append(o, Op("execute_script", field_key, "value=,input,change", date_text, scriptOk))
    IN [ops |-> typing_fallback(o1, field_key, sel, date_text, clearOk, keysSent),
        raised |-> FALSE]

\* The special handling with a failure of the typing fallback passed on.
set_inicio_vigencia_raising(o, field_key, sel, value, scriptOk, clearOk, keysSent) ==
    LET date_text == PyStr(DatePart(py_str(value)))
        o1 == Append(o, Op("execute_script", field_key, "value=,input,change", date_text, scriptOk))
    IN IF scriptOk
       THEN [ops |-> Append(o1, Op("execute_script", field_key, "blur", PyNone, TRUE)),
             raised |-> FALSE]
       ELSE [ops |-> typing_fallback(o1, field_key, sel, date_text, clearOk, keysSent),
             raised |-> keysSent < 2]

\* The special handling of inicio_vigencia: one script writes the date part
\* into the control's value and dispatches input and change on it, then the
\* control is blurred (a raising blur is swallowed); when the script is
\* rejected the date is cleared, typed and TAB sent instead, every exception
\* swallowed. Either way fill_field returns. scriptOk: did the writing script
\* run.
set_inicio_vigencia(o, field_key, sel, value, scriptOk, clearOk, keysSent) ==
    LET date_text == PyStr(DatePart(py_str(value)))
        o1 == Append(o, Op("execute_script", field_key, "value=,input,change", date_text, scriptOk))
    IN IF scriptOk
       THEN [ops |-> Append(o1, Op("execute_script", field_key, "blur", PyNone, TRUE)),
             raised |-> FALSE]
       ELSE [ops |-> typing_fallback(o1, field_key, sel, date_text, clearOk, keysSent),
             raised |-> FALSE]

\* The select branch of fill_field: the script matcher, then (when it returned
\* False) the tolerant matcher, then (when that raised) a direct write of
\* str(mapped_value) into the control's value with a change event; only a
\* failure of that write is raised. js_index / tolerant_index: the index the
\* matcher selected, -1 when it selected none (js returns False, tolerant
\* raises ValueError).
select_branch(o, field_key, sel, mapped_value, js_index, tolerant_index, scriptOk) ==
    LET o1 == Append(o, Op("js_select_by_text_or_value", field_key, sel,
                           PyStr(py_str(mapped_value)), js_index >= 0))
        o2 == Append(o1, Op("select_by_visible_text_tolerant", field_key, sel,
                            mapped_value, tolerant_index >= 0))
        o3 == Append(o2, Op("execute_script", field_key, "value=,change",
                            PyStr(py_str(mapped_value)), scriptOk))
    IN IF js_index >= 0 THEN [ops |-> o1, raised |-> FALSE, selected |-> js_index]
       ELSE IF tolerant_index >= 0 THEN [ops |-> o2, raised |-> FALSE, selected |-> tolerant_index]
       ELSE [ops |-> o3, raised |-> ~scriptOk, selected |-> -1]

\* What the page does during one call of fill_field: located (did the wait
\* for the element return it), js_index and tolerant_index (see
\* select_branch), scriptOk (did the value-writing script run), algoOk (did
\* fill_select2, fill_autocomplete or send_keys return normally), clearOk (did
\* el.clear() return normally), keysSent (see typing_fallback).
Page(located, js_index, tolerant_index, scriptOk, algoOk, clearOk, keysSent) ==
    [located |-> located, js_index |-> js_index, tolerant_index |-> tolerant_index,
     scriptOk |-> scriptOk, algoOk |-> algoOk, clearOk |-> clearOk, keysSent |-> keysSent]

\* fill_field dispatching on the type as it is written, without lower().
fill_field_case_sensitive(field_key, selector, value, value_map, page) ==
    LET sel == SelectorGet(selector, "value", "<None>")
        typ == SelectorGet(selector, "type", "input")
        mapped_value == mapped_value_of(field_key, value, typ, value_map)
        o1 == <<Op("execute_script", field_key, "scrollIntoView", PyNone, TRUE)>>
        arg == PyStr(py_str(mapped_value))
    IN IF ~page.located THEN [ops |-> << >>, raised |-> TRUE]
       ELSE IF field_key = "inicio_vigencia"
       THEN set_inicio_vigencia(o1, field_key, sel, value, page.scriptOk,
                                page.clearOk, page.keysSent)
       ELSE CASE typ = "select" ->
                   LET r == select_branch(o1, field_key, sel, mapped_value,
                                          page.js_index, page.tolerant_index, page.scriptOk)
                   IN [ops |-> r.ops, raised |-> r.raised]
              [] typ = "select2" ->
                   [ops |-> Append(o1, Op("fill_select2", field_key, sel, arg, page.algoOk)),
                    raised |-> ~page.algoOk]
              [] typ = "autocomplete" ->
                   [ops |-> Append(o1, Op("fill_autocomplete", field_key, sel, arg, page.algoOk)),
                    raised |-> ~page.algoOk]
              [] OTHER ->
                   [ops |-> o1 \o << Op("clear", field_key, sel, PyNone, page.clearOk),
                                     Op("send_keys", field_key, sel, arg, page.algoOk) >>,
                    raised |-> ~page.algoOk]

\* fill_field(driver, wait, field_key, selector, value, value_map): the
\* element is waited for and scrolled into view; inicio_vigencia is set by its
\* own handling, whatever its type; any other field is filled by the
\* algorithm of its lower-cased type.
fill_field(field_key, selector, value, value_map, page) ==
    LET sel == SelectorGet(selector, "value", "<None>")
        typ == Lower(SelectorGet(selector, "type", "input"))
        mapped_value == mapped_value_of(field_key, value, typ, value_map)
        o1 == <<Op("execute_script", field_key, "scrollIntoView", PyNone, TRUE)>>
        arg == PyStr(py_str(mapped_value))
    IN IF ~page.located THEN [ops |-> << >>, raised |-> TRUE]
       ELSE IF field_key = "inicio_vigencia"
       THEN set_inicio_vigencia(o1, field_key, sel, value, page.scriptOk,
                                page.clearOk, page.keysSent)
       ELSE CASE typ = "select" ->
                   LET r == select_branch(o1, field_key, sel, mapped_value,
                                          page.js_index, page.tolerant_index, page.scriptOk)
                   IN [ops |-> r.ops, raised |-> r.raised]
              [] typ = "select2" ->
                   [ops |-> Append(o1, Op("fill_select2", field_key, sel, arg, page.algoOk)),
                    raised |-> ~page.algoOk]
              [] typ = "autocomplete" ->
                   [ops |-> Append(o1, Op("fill_autocomplete", field_key, sel, arg, page.algoOk)),
                    raised |-> ~page.algoOk]
              [] OTHER ->
                   [ops |-> o1 \o << Op("clear", field_key, sel, PyNone, page.clearOk),
                                     Op("send_keys", field_key, sel, arg, page.algoOk) >>,
                    raised |-> ~page.algoOk]

\* The field keys, selector types, values and value maps fill_field is called with.
FillFieldKeys == {"aseguradora", "clausula_ajuste", "inicio_vigencia", "patente"}
FillFieldTypes ==
    {Missing, "input", "Input", "select", "Select", "select2", "Select2", "autocomplete", "checkbox"}
FillFieldValues == {PyStr("ALLIANZ"), PyInt(1), PyStr("01/01/2025 00:00:00")}
\* A select_value_map with an entry for inicio_vigencia.
DateValueMap ==
    [f \in {"inicio_vigencia"} |-> [v \in {PyStr("01/01/2025 00:00:00")} |-> PyStr("HOY")]]

FillFieldValueMaps == {NoValueMap, SomeValueMap, DateValueMap}

InitFillField ==
    /\ InitIdleForm
    /\ pc = "call"
    /\ \E field_key \in FillFieldKeys, typ \in FillFieldTypes, value \in FillFieldValues,
          value_map \in FillFieldValueMaps,
          located \in BOOLEAN, js_index \in {-1, 0}, tolerant_index \in {-1, 0},
          scriptOk \in BOOLEAN, algoOk \in BOOLEAN, clearOk \in BOOLEAN :
       \E keysSent \in (IF field_key = "inicio_vigencia" THEN 0..2 ELSE {2}) :
          call = [fn |-> "fill_field", field_key |-> field_key,
                  selector |-> Locator("id", "ctl", typ), value |-> value,
                  value_map |-> value_map,
                  page |-> Page(located, js_index, tolerant_index, scriptOk, algoOk,
                                clearOk, keysSent)]
    /\ ret = NoCall

\* fill_field(driver, wait, field_key, selector, value, value_map)
CallFillField ==
    /\ pc = "call"
    /\ ret' = fill_field(call.field_key, call.selector, call.value, call.value_map, call.page)
    /\ pc' = IF ret'.raised THEN "raised" ELSE "returned"
    /\ UNCHANGED <<formVars, call>>

NextFillField == CallFillField

SpecFillField == InitFillField /\ [][NextFillField]_vars

\* ---------------------------------------------------------------- native select
\* A string with its characters, one string of length 1 per character.
Text(str, chars) == [str |-> str, chars |-> chars]

\* An <option> of a select element: its visible text and its value attribute.
Option(text, value) == [text |-> text, value |-> value]

\* unicodedata.normalize("NFKD", c) without its combining characters, on the
\* characters that occur: an accented letter loses its accent, and a
\* compatibility character (the ordinal indicator) becomes its plain letter.
Unaccent(c) ==
    CASE c = "í" -> "i"
      [] c = "Í" -> "I"
      [] c = "ó" -> "o"
      [] c = "á" -> "a"
      [] c = "Á" -> "A"
      [] c = "é" -> "e"
      [] c = "É" -> "E"
      [] c = "º" -> "o"
      [] OTHER -> c

\* str.lower() on one character, on the capitals that occur.
LowerChar(c) ==
    CASE c = "S" -> "s" [] c = "I" -> "i" [] c = "N" -> "n" [] c = "C" -> "c"
      [] c = "F" -> "f" [] c = "R" -> "r" [] c = "A" -> "a" [] c = "E" -> "e"
      [] c = "G" -> "g" [] c = "J" -> "j" [] c = "O" -> "o" [] c = "P" -> "p"
      [] c = "Z" -> "z" [] c = "L" -> "l" [] c = "B" -> "b" [] OTHER -> c

\* The whitespace characters that occur.
Whitespace == {" ", "\t", "\n"}

\* str.strip() on a sequence of characters.
RECURSIVE Strip(_)
Strip(cs) ==
    IF cs = << >> THEN cs
    ELSE IF Head(cs) \in Whitespace THEN Strip(Tail(cs))
    ELSE IF cs[Len(cs)] \in Whitespace THEN Strip(SubSeq(cs, 1, Len(cs) - 1))
    ELSE cs

\* The function keeping the accents.
normalize_text_without_accent_removal(cs) ==
    LET stripped == Strip(cs)
    IN [i \in 1..Len(stripped) |-> LowerChar(stripped[i])]

\* normalize_text(s): accents removed, stripped, lower-cased.
normalize_text(cs) ==
    LET unaccented == [i \in 1..Len(cs) |-> Unaccent(cs[i])]
        stripped == Strip(unaccented)
    IN [i \in 1..Len(stripped) |-> LowerChar(stripped[i])]

\* needle in hay, on sequences of characters.
Contains(hay, needle) ==
    \E i \in 0..(Len(hay) - Len(needle)) : SubSeq(hay, i + 1, i + Len(needle)) = needle

\* The index (from 0) of the first option that passes a test, -1 when none
\* does; hits[k] tells whether the k-th option passes.
FirstIndex(hits) ==
    IF \E k \in 1..Len(hits) : hits[k]
    THEN (CHOOSE k \in 1..Len(hits) : hits[k] /\ \A j \in 1..(k - 1) : ~hits[j]) - 1
    ELSE -1

\* The first loop of both matchers: normalized text or value equal to the target.
ExactPass(options, tgt) ==
    FirstIndex([k \in 1..Len(options) |->
                   \/ normalize_text(options[k].text.chars) = tgt
                   \/ normalize_text(options[k].value.chars) = tgt])

\* The second loop of both matchers: normalized text or value containing the target.
SubstringPass(options, tgt) ==
    FirstIndex([k \in 1..Len(options) |->
                   \/ Contains(normalize_text(options[k].text.chars), tgt)
                   \/ Contains(normalize_text(options[k].value.chars), tgt)])

\* js_select_by_text_or_value(driver, select_el, target): the index the script
\* selected, -1 when it returns False: no option matched in either loop, or
\* execute_script raised (js_runs false).
js_select_by_text_or_value(options, target, js_runs) ==
    LET tgt == normalize_text(target.chars)
        exact == ExactPass(options, tgt)
    IN IF ~js_runs THEN -1
       ELSE IF exact >= 0 THEN exact
       ELSE SubstringPass(options, tgt)

\* The tolerant matcher taking the substring pass before the exact pass.
select_by_visible_text_tolerant_substring_first(options, target) ==
    LET tgt == normalize_text(target.chars)
        literal == FirstIndex([k \in 1..Len(options) |-> options[k].text.chars = target.chars])
        sub == SubstringPass(options, tgt)
    IN IF literal >= 0 THEN literal
       ELSE IF sub >= 0 THEN sub
       ELSE ExactPass(options, tgt)

\* select_by_visible_text_tolerant(select, value): the index selected, -1 when
\* ValueError is raised. First Select.select_by_visible_text(str(value)), which
\* selects the first option whose text is the target itself; then the exact
\* pass, then the substring pass.
select_by_visible_text_tolerant(options, target) ==
    LET tgt == normalize_text(target.chars)
        literal == FirstIndex([k \in 1..Len(options) |-> options[k].text.chars = target.chars])
        exact == ExactPass(options, tgt)
    IN IF literal >= 0 THEN literal
       ELSE IF exact >= 0 THEN exact
       ELSE SubstringPass(options, tgt)

\* The number of options of the select elements that are enumerated.
MaxOptions == 2

\* Options whose texts differ in case or accent only, one that holds "si"
\* inside its text, and one that has it as its value.
OptionPool ==
    { Option(Text("SI", <<"S", "I">>), Text("1", <<"1">>)),
      Option(Text("Si", <<"S", "i">>), Text("2", <<"2">>)),
      Option(Text("Sí", <<"S", "í">>), Text("3", <<"3">>)),
      Option(Text("No si", <<"N", "o", " ", "s", "i">>), Text("4", <<"4">>)),
      Option(Text("No", <<"N", "o">>), Text("si", <<"s", "i">>)) }

TargetPool == { Text("Si", <<"S", "i">>), Text("si", <<"s", "i">>), Text("no", <<"n", "o">>), Text("x", <<"x">>),
                Text("4", <<"4">>), Text(" si", <<" ", "s", "i">>) }

\* The select of the IVA condition.
IvaOptions ==
    << Option(Text("Seleccione", <<"S", "e", "l", "e", "c", "c", "i", "o", "n", "e">>), Text("0", <<"0">>)),
       Option(Text("Consumidor Final", <<"C", "o", "n", "s", "u", "m", "i", "d", "o", "r", " ", "F", "i", "n", "a", "l">>), Text("5", <<"5">>)),
       Option(Text("Responsable Inscripto", <<"R", "e", "s", "p", "o", "n", "s", "a", "b", "l", "e", " ", "I", "n", "s", "c", "r", "i", "p", "t", "o">>), Text("1", <<"1">>)) >>

IvaTarget == Text("consumidor final", <<"c", "o", "n", "s", "u", "m", "i", "d", "o", "r", " ", "f", "i", "n", "a", "l">>)

OptionLists == UNION { [1..n -> OptionPool] : n \in 0..MaxOptions }

InitSelect ==
    /\ InitIdleForm
    /\ pc = "call"
    /\ \E js_runs \in BOOLEAN, scriptOk \in BOOLEAN :
          \/ \E options \in OptionLists, target \in TargetPool :
                call = [fn |-> "select", options |-> options, target |-> target,
                        js_runs |-> js_runs, scriptOk |-> scriptOk]
          \/ call = [fn |-> "select", options |-> IvaOptions, target |-> IvaTarget,
                     js_runs |-> js_runs, scriptOk |-> scriptOk]
    /\ ret = NoCall

\* fill_field on a located element of type select, from the point where the
\* translated value is known.
CallSelect ==
    /\ pc = "call"
    /\ ret' = select_branch(<< >>, "tipo_iva", "TipoIva", PyStr(call.target.str),
                            js_select_by_text_or_value(call.options, call.target, call.js_runs),
                            select_by_visible_text_tolerant(call.options, call.target),
                            call.scriptOk)
    /\ pc' = IF ret'.raised THEN "raised" ELSE "returned"
    /\ UNCHANGED <<formVars, call>>

NextSelect == CallSelect

SpecSelect == InitSelect /\ [][NextSelect]_vars

\* ---------------------------------------------------------------- wait_for_field_post_effect
\* The passes of a polling loop that are followed before its deadline is taken
\* as reached (the loops run for 3 s with a pause of 0.1 s per pass).
MaxPolls == 4

\* time.sleep(seconds), in milliseconds.
Sleep(ms) == [ev |-> "sleep", ms |-> ms, script |-> "-", result |-> "-"]

\* driver.execute_script(script) and how it ended: "true", "false" or "raise".
Script(script, result) == [ev |-> "execute_script", ms |-> 0, script |-> script, result |-> result]

\* The readiness script polled after a field, "-" for a field without one.
ReadyScript(field_key) ==
    CASE field_key = "aseguradora" -> "idRiesgo populated"
      [] field_key = "cliente" -> "Moneda, TipoRenovacion, TipoVigencia, NroCuota populated"
      [] OTHER -> "-"

\* The function pausing after every field that has no branch of its own.
post_effect_start_pausing_always(field_key, result) ==
    CASE field_key = "aseguradora" -> [events |-> <<Sleep(250)>>, pc |-> "poll"]
      [] field_key = "riesgo" -> [events |-> <<Script("return 1", result), Sleep(250)>>, pc |-> "returned"]
      [] field_key = "cliente" -> [events |-> << >>, pc |-> "poll"]
      [] OTHER -> [events |-> <<Sleep(250)>>, pc |-> "returned"]

\* wait_for_field_post_effect(driver, field_key) up to its polling loop:
\* aseguradora pauses 0.25 s and goes on to poll; riesgo runs the script
\* "return 1", whose exception is swallowed, pauses 0.25 s and returns;
\* cliente goes on to poll; any other field returns.
post_effect_start(field_key, result) ==
    CASE field_key = "aseguradora" -> [events |-> <<Sleep(250)>>, pc |-> "poll"]
      [] field_key = "riesgo" -> [events |-> <<Script("return 1", result), Sleep(250)>>, pc |-> "returned"]
      [] field_key = "cliente" -> [events |-> << >>, pc |-> "poll"]
      [] OTHER -> [events |-> << >>, pc |-> "returned"]

\* A <select> of the page as the readiness scripts see it: whether
\* getElementById finds it, its disabled flag and the texts of its options.
SelectEl(present, disabled, texts) == [present |-> present, disabled |-> disabled, texts |-> texts]

NoElement == SelectEl(FALSE, FALSE, << >>)

\* String(t).toLowerCase().includes(w) for the option texts of the model.
LowerIncludes(t, w) ==
    CASE w = "seleccione" -> t \in {"Seleccione...", "SELECCIONE"}
      [] w = "cargando" -> t \in {"Cargando..."}
      [] w = "buscando" -> t \in {"Buscando..."}
      [] OTHER -> FALSE

\* The test closing both readiness scripts, over (s.options[0]||{}).text||''.
first_text_is_data(s) ==
    LET t == IF Len(s.texts) > 0 THEN s.texts[1] ELSE "" IN
    ~(LowerIncludes(t, "seleccione") \/ LowerIncludes(t, "cargando") \/ LowerIncludes(t, "buscando"))

\* The script accepting a risk list of a single option.
riesgo_ready_with_one_option(dom) ==
    LET s == dom["idRiesgo"] IN
    IF ~s.present THEN FALSE
    ELSE IF Len(s.texts) <= 0 THEN FALSE
    ELSE first_text_is_data(s)

\* The script polled after aseguradora.
riesgo_ready(dom) ==
    LET s == dom["idRiesgo"] IN
    IF ~s.present THEN FALSE
    ELSE IF Len(s.texts) <= 1 THEN FALSE
    ELSE first_text_is_data(s)

\* function ok(id) of the script polled after cliente.
ok(dom, id) ==
    LET s == dom[id] IN
    IF ~s.present THEN FALSE
    ELSE IF s.disabled THEN FALSE
    ELSE IF Len(s.texts) <= 0 THEN FALSE
    ELSE first_text_is_data(s)

\* The script polled after cliente.
cliente_ready(dom) ==
    ok(dom, "Moneda") /\ ok(dom, "TipoRenovacion") /\ ok(dom, "TipoVigencia") /\ ok(dom, "NroCuota")

\* What driver.execute_script returns for the readiness script of a field.
ready_script(field_key, dom) ==
    IF field_key = "aseguradora" THEN riesgo_ready(dom) ELSE cliente_ready(dom)

\* The deadline of a polling loop, time.time() + 3.0, in milliseconds.
PollDeadline == 3000

\* One pass of a polling loop: the readiness script is run; a true result
\* breaks the loop, a false result or an exception is followed by a pause of
\* 0.1 s.
post_effect_poll(events, field_key, result) ==
    LET e1 == Append(events, Script(ReadyScript(field_key), result)) IN
    IF result = "true" THEN [events |-> e1, pc |-> "returned"]
    ELSE [events |-> Append(e1, Sleep(100)), pc |-> "poll"]

PollsMade == Len(SelectSeq(ret.events, LAMBDA e : e.ev = "execute_script"))

\* The selects the readiness scripts look at.
ReadyIds == {"idRiesgo", "Moneda", "TipoRenovacion", "TipoVigencia", "NroCuota"}

Populated == SelectEl(TRUE, FALSE, <<"Pesos", "Dolares">>)

\* The states one select is observed in: absent, disabled, empty, a single
\* option, a placeholder or loading label first, populated.
SelectStates ==
    {NoElement, SelectEl(TRUE, TRUE, <<"Pesos", "Dolares">>), SelectEl(TRUE, FALSE, << >>),
     SelectEl(TRUE, FALSE, <<"Pesos">>), SelectEl(TRUE, FALSE, <<"Seleccione...">>),
     SelectEl(TRUE, FALSE, <<"SELECCIONE", "Pesos">>), SelectEl(TRUE, FALSE, <<"Cargando...", "Pesos">>),
     SelectEl(TRUE, FALSE, <<"Buscando...", "Pesos">>), Populated}

NoDom == [id \in ReadyIds |-> NoElement]

\* The pages one observation may find: after aseguradora the risk select in
\* any state; after cliente the four selects each disabled or populated, and
\* any one of them in any state beside three populated ones.
DomPool(field_key) ==
    IF field_key = "aseguradora"
    THEN {[NoDom EXCEPT !["idRiesgo"] = s] : s \in SelectStates}
    ELSE LET ids == ReadyIds \ {"idRiesgo"}
             two == {SelectEl(TRUE, TRUE, <<"Pesos", "Dolares">>), Populated} IN
         {[id \in ReadyIds |-> IF id = "idRiesgo" THEN NoElement ELSE f[id]] : f \in [ids -> two]}
         \cup {[id \in ReadyIds |-> IF id = "idRiesgo" THEN NoElement
                                     ELSE IF id = one THEN s ELSE Populated] :
                   one \in ids, s \in SelectStates}

\* One execute_script call of a polling loop: it raises, or it runs the
\* script on the page it finds.
Observations(field_key) ==
    {[raises |-> FALSE, dom |-> d] : d \in DomPool(field_key)} \cup {[raises |-> TRUE, dom |-> NoDom]}

InitPostEffect ==
    /\ InitIdleForm
    /\ pc = "call"
    /\ \E field_key \in FieldNames :
          call = [fn |-> "wait_for_field_post_effect", field_key |-> field_key]
    /\ ret = NoCall

\* wait_for_field_post_effect(driver, field_key) is entered.
PostEffectStart ==
    /\ pc = "call"
    /\ \E result \in IF call.field_key = "riesgo" THEN {"true", "raise"} ELSE {"-"} :
          LET r == post_effect_start(call.field_key, result) IN
          /\ ret' = [events |-> r.events, dom |-> NoDom,
                     end |-> IF r.pc = "poll" THEN PollDeadline ELSE 0, left_by |-> "-"]
          /\ pc' = r.pc
    /\ UNCHANGED <<formVars, call>>

\* One pass of the while loop, before the deadline.
PostEffectPoll ==
    /\ pc = "poll"
    /\ PollsMade < MaxPolls
    /\ \E o \in Observations(call.field_key) :
          LET dom == o.dom
              result == IF o.raises THEN "raise"
                        ELSE IF ready_script(call.field_key, dom) THEN "true" ELSE "false"
              r == post_effect_poll(ret.events, call.field_key, result) IN
          /\ ret' = [ret EXCEPT !.events = r.events, !.dom = dom,
                                !.left_by = IF r.pc = "returned" THEN "break" ELSE "-"]
          /\ pc' = r.pc
    /\ UNCHANGED <<formVars, call>>

\* The while test finds the deadline passed.
PostEffectDeadline ==
    /\ pc = "poll"
    /\ pc' = "returned"
    /\ ret' = [ret EXCEPT !.left_by = "deadline"]
    /\ UNCHANGED <<formVars, call>>

NextPostEffect == PostEffectStart \/ PostEffectPoll \/ PostEffectDeadline

SpecPostEffect == InitPostEffect /\ [][NextPostEffect]_vars

\* The clock advances, so a loop that polls is not left pending: the while
\* test is evaluated again and the deadline is found passed.
SpecPostEffectLive == SpecPostEffect /\ WF_vars(NextPostEffect)

\* ------------------------------------------------------------ fill_autocomplete
\* A driver call made on the autocomplete input or on a row of its results
\* list, and whether a results list is present on the page when it is made.
AcOp(op, target, arg, list_open) == [op |-> op, target |-> target, arg |-> arg, list_open |-> list_open]

\* The whole value, where value[:4] is due.
whole_value(chars) == chars

\* value[:4]
Prefix4(chars) == SubSeq(chars, 1, IF Len(chars) < 4 THEN Len(chars) ELSE 4)

\* What the page does during one fill_autocomplete: exc names the unguarded
\* call that raises ("none"; "clear"; "type"; "down", "enter": the send_keys of
\* ARROW_DOWN, of ENTER, when the call comes to it); list_by is the candidate
\* locator whose wait finds rows ("css", "xpath") or "none" when both waits
\* time out; click_ok and script_ok tell whether the click on the first row
\* and the closing script run.
AcPage(exc, list_by, click_ok, script_ok) ==
    [exc |-> exc, list_by |-> list_by, click_ok |-> click_ok, script_ok |-> script_ok]

\* The waits of the candidates loop, up to the first that finds rows.
candidate_waits(list_by) ==
    CASE list_by = "css" -> <<AcOp("wait_rows", "css", << >>, TRUE)>>
      [] list_by = "xpath" -> <<AcOp("wait_rows", "css", << >>, FALSE), AcOp("wait_rows", "xpath", << >>, TRUE)>>
      [] OTHER -> <<AcOp("wait_rows", "css", << >>, FALSE), AcOp("wait_rows", "xpath", << >>, FALSE)>>

\* fill_autocomplete(driver, el, value, wait): clear, type the first four
\* characters, wait for rows under each candidate locator; with rows, click
\* the first one and, when the click raises, send ARROW_DOWN then ENTER to
\* the input; without rows send ENTER to the input; then dispatch change and
\* blur by script, whose exception is swallowed.
fill_autocomplete(value, page) ==
    LET o1 == <<AcOp("clear", "el", << >>, FALSE)>>
        o2 == Append(o1, AcOp("send_keys", "el", Prefix4(value.chars), FALSE))
        o3 == o2 \o candidate_waits(page.list_by)
        options == page.list_by # "none"
        o4 == IF options
              THEN IF page.click_ok
                   THEN Append(o3, AcOp("click", "options[0]", << >>, TRUE))
                   ELSE o3 \o <<AcOp("click_raises", "options[0]", << >>, TRUE),
                                AcOp("send_keys", "el", <<"ARROW_DOWN">>, TRUE),
                                AcOp("send_keys", "el", <<"ENTER">>, TRUE)>>
              ELSE Append(o3, AcOp("send_keys", "el", <<"ENTER">>, FALSE))
        o5 == Append(o4, AcOp(IF page.script_ok THEN "change_blur" ELSE "change_blur_raises", "el", << >>, FALSE))
        \* the keyboard fallback up to the send_keys that raises
        down_raises == o3 \o <<AcOp("click_raises", "options[0]", << >>, TRUE),
                               AcOp("send_keys_raises", "el", <<"ARROW_DOWN">>, TRUE)>>
        enter_raises == IF options
                        THEN o3 \o <<AcOp("click_raises", "options[0]", << >>, TRUE),
                                     AcOp("send_keys", "el", <<"ARROW_DOWN">>, TRUE),
                                     AcOp("send_keys_raises", "el", <<"ENTER">>, TRUE)>>
                        ELSE Append(o3, AcOp("send_keys_raises", "el", <<"ENTER">>, FALSE))
        keyboard == ~options \/ ~page.click_ok
    IN CASE page.exc = "clear" -> [ops |-> <<AcOp("clear_raises", "el", << >>, FALSE)>>, raised |-> TRUE]
         [] page.exc = "type" -> [ops |-> Append(o1, AcOp("send_keys_raises", "el", Prefix4(value.chars), FALSE)), raised |-> TRUE]
         [] page.exc = "down" /\ options /\ ~page.click_ok -> [ops |-> down_raises, raised |-> TRUE]
         [] page.exc = "enter" /\ keyboard -> [ops |-> enter_raises, raised |-> TRUE]
         [] OTHER -> [ops |-> o5, raised |-> FALSE]

\* Values typed into an autocomplete field: empty, shorter than, as long as
\* and longer than four characters.
AcValues ==
    {Text("", << >>), Text("ab", <<"a", "b">>), Text("Juan", <<"J", "u", "a", "n">>),
     Text("Perez", <<"P", "e", "r", "e", "z">>), Text("Si", <<"S", "i">>),
     Text("No si", <<"N", "o", " ", "s", "i">>)}

AcPages ==
    {AcPage(e, l, c, s) : e \in {"none", "clear", "type", "down", "enter"}, l \in {"css", "xpath", "none"},
                          c \in BOOLEAN, s \in BOOLEAN}

InitAutocomplete ==
    /\ InitIdleForm
    /\ pc = "call"
    /\ \E value \in AcValues, page \in AcPages :
          call = [fn |-> "fill_autocomplete", value |-> value, page |-> page]
    /\ ret = NoCall

\* fill_autocomplete(driver, el, value, wait)
CallFillAutocomplete ==
    /\ pc = "call"
    /\ ret' = fill_autocomplete(call.value, call.page)
    /\ pc' = IF ret'.raised THEN "raised" ELSE "returned"
    /\ UNCHANGED <<formVars, call>>

NextAutocomplete == CallFillAutocomplete

SpecAutocomplete == InitAutocomplete /\ [][NextAutocomplete]_vars

\* ---------------------------------------------------------------- normalize_text
\* Bound: the length of the strings normalize_text is applied to.
MaxNormLen == 3

\* Letters in both cases, with and without accent, whitespace, a character
\* that NFKD leaves alone and one that it replaces.
NormAlphabet == {"a", "A", "á", " ", "-", "º"}

\* The strings of the tests: "  JOSÉ García  " and "\thello\n" (shortened).
NormExamples ==
    {<<"J", "O", "S", "É", " ", "G", "a", "r", "c", "í", "a", " ">>,
     <<" ", " ", "J", "O", "S", "É", " ", "G", "a", "r", "c", "í", "a", " ", " ">>,
     <<"\t", "e", "\n">>}

NormInputs == UNION {[1..n -> NormAlphabet] : n \in 0..MaxNormLen} \cup NormExamples

InitNormalize ==
    /\ InitIdleForm
    /\ pc = "call"
    /\ \E s \in NormInputs : call = [fn |-> "normalize_text", s |-> s]
    /\ ret = NoCall

\* normalize_text(s)
CallNormalize ==
    /\ pc = "call"
    /\ ret' = [out |-> normalize_text(call.s)]
    /\ pc' = "returned"
    /\ UNCHANGED <<formVars, call>>

\* normalize_text applied to a result of normalize_text.
CallNormalizeAgain ==
    /\ pc = "returned"
    /\ call' = [fn |-> "normalize_text", s |-> ret.out]
    /\ ret' = [out |-> normalize_text(ret.out), first |-> call.s]
    /\ pc' = "renormalized"
    /\ UNCHANGED formVars

NextNormalize == CallNormalize \/ CallNormalizeAgain

SpecNormalize == InitNormalize /\ [][NextNormalize]_vars

\* ---------------------------------------------------------------- by_from_string
\* The strings by_from_string is called with: the four strategy names in
\* several letter cases, the empty string, names of other selenium
\* strategies, and strings that contain a strategy name.
ByStrings ==
    {"id", "ID", "Id", "iD", "css", "CSS", "Css", "cSS", "CsS", "xpath", "XPATH", "XPath",
     "Xpath", "xPATH", "name", "NAME", "Name", "nAmE", "", "unknown", "class name",
     "CLASS NAME", "css selector", "link text", "tag name", " id", "id ", "ids"}

InitBy ==
    /\ InitIdleForm
    /\ pc = "call"
    /\ \E s \in ByStrings : call = [fn |-> "by_from_string", s |-> s]
    /\ ret = NoCall

\* by_from_string(s)
CallBy ==
    /\ pc = "call"
    /\ ret' = [by |-> by_from_string(call.s), earlier |-> << >>]
    /\ pc' = "returned"
    /\ UNCHANGED <<formVars, call>>

\* A further call of by_from_string, after a call that returned.
CallByAgain ==
    /\ pc = "returned"
    /\ ret.earlier = << >>
    /\ \E s \in ByStrings :
          /\ call' = [fn |-> "by_from_string", s |-> s]
          /\ ret' = [by |-> by_from_string(s), earlier |-> <<[s |-> call.s, by |-> ret.by]>>]
    /\ UNCHANGED <<formVars, pc>>

NextBy == CallBy \/ CallByAgain

SpecBy == InitBy /\ [][NextBy]_vars

\* ------------------------------------------------ close_any_select2 and the Open step
\* The select2 widgets of the page, by the id of their base select.
Widgets == {"idAseguradora", "idRiesgo", "idCliente"}

\* The page as close_any_select2 finds it: open is the set of widgets whose
\* overlay is open; has_search tells whether an open overlay shows a search
\* box; esc tells what sending ESCAPE to it does ("closes" the overlay,
\* "ignored", "raises"); exclusive tells whether the page closes the other
\* overlays when one is opened.
OverlayPage(open, has_search, esc, exclusive) ==
    [open |-> open, has_search |-> has_search, esc |-> esc, exclusive |-> exclusive]

\* close_any_select2(driver, wait) of selenium_helpers.py: ESCAPE is sent to
\* the last open search box, its exception swallowed; wait.until_not then
\* returns once no open results region is present, and its timeout is
\* swallowed as well. Returns the driver calls and the overlays left open.
close_any_overlay(page) ==
    LET search == page.open # {} /\ page.has_search
        o1 == IF search THEN <<[op |-> "send_keys ESCAPE", ok |-> page.esc # "raises"]>> ELSE << >>
        left == IF search /\ page.esc = "closes" THEN {} ELSE page.open
    IN [ops |-> Append(o1, [op |-> "wait.until_not open results", ok |-> left = {}]),
        open |-> left]

\* The Open step of _attempt(): the selection of the widget is clicked and
\* its overlay opens.
open_click(select_id, open, exclusive) ==
    [open_at_click |-> open,
     open |-> IF exclusive THEN {select_id} ELSE open \cup {select_id}]

OverlayPages ==
    {OverlayPage(open, s, e, x) :
        open \in {{}} \cup {{w} : w \in Widgets}, s \in BOOLEAN,
        e \in {"closes", "ignored", "raises"}, x \in BOOLEAN}

InitOverlay ==
    /\ InitIdleForm
    /\ pc = "call"
    /\ \E select_id \in Widgets, page \in OverlayPages :
          call = [fn |-> "_attempt", select_id |-> select_id, page |-> page]
    /\ ret = NoCall

\* The attempt runs close_any_select2.
AttemptCloses ==
    /\ pc = "call"
    /\ LET c == close_any_overlay(call.page) IN
       ret' = [ops |-> c.ops, open |-> c.open, open_at_click |-> {}]
    /\ pc' = "closed"
    /\ UNCHANGED <<formVars, call>>

\* The attempt clicks the selection of its widget.
AttemptOpens ==
    /\ pc = "closed"
    /\ LET c == open_click(call.select_id, ret.open, call.page.exclusive) IN
       ret' = [ret EXCEPT !.open = c.open, !.open_at_click = c.open_at_click]
    /\ pc' = "opened"
    /\ UNCHANGED <<formVars, call>>

NextOverlay == AttemptCloses \/ AttemptOpens

SpecOverlay == InitOverlay /\ [][NextOverlay]_vars

\* ------------------------------------------------------- the idRiesgo guard
\* What one execute_script call of the guard finds: whether idAseguradora and
\* idRiesgo exist, the value of idAseguradora and the disabled flag of
\* idRiesgo; raises tells that the call raised instead.
GuardObs(raises, a_present, r_present, a_value, r_disabled) ==
    [raises |-> raises, a_present |-> a_present, r_present |-> r_present,
     a_value |-> a_value, r_disabled |-> r_disabled]

NoGuardObs == GuardObs(FALSE, FALSE, FALSE, "", FALSE)

GuardObservations ==
    {GuardObs(FALSE, a, r, v, d) : a \in BOOLEAN, r \in BOOLEAN, v \in {"", "12"}, d \in BOOLEAN}
    \cup {GuardObs(TRUE, FALSE, FALSE, "", FALSE)}

\* The script of the guard: if(!a||!r) return false; return av.length>0 && !dis.
guard_script(o) ==
    IF ~o.a_present \/ ~o.r_present THEN FALSE
    ELSE o.a_value # "" /\ ~o.r_disabled

\* The deadline of the guard, time.time() + 4.0, in milliseconds.
GuardDeadline == 4000

\* Where _attempt() goes first: into the guard for idRiesgo, past it otherwise.
attempt_start(select_id) ==
    [pc |-> IF select_id = "idRiesgo" THEN "guard" ELSE "guarded",
     end_ready |-> IF select_id = "idRiesgo" THEN GuardDeadline ELSE 0]

\* One pass of the guard's loop: a true result breaks it; a false result or
\* an exception is followed by a pause of 0.1 s and the next test of the
\* deadline.
guard_poll(g, o) ==
    LET ready == ~o.raises /\ guard_script(o) IN
    [g EXCEPT !.polls = g.polls + 1, !.last = o,
              !.left_by = IF ready THEN "break" ELSE "-",
              !.sleeps = IF ready THEN g.sleeps ELSE g.sleeps + 1]

InitGuard ==
    /\ InitIdleForm
    /\ pc = "call"
    /\ \E select_id \in SelectIds : call = [fn |-> "_attempt guard", select_id |-> select_id]
    /\ ret = NoCall

\* _attempt() is entered.
AttemptStarts ==
    /\ pc = "call"
    /\ LET s == attempt_start(call.select_id) IN
       /\ ret' = [polls |-> 0, sleeps |-> 0, last |-> NoGuardObs, left_by |-> "-",
                  end_ready |-> s.end_ready, opened |-> FALSE]
       /\ pc' = s.pc
    /\ UNCHANGED <<formVars, call>>

\* One pass of the guard's while loop, before its deadline.
GuardPolls ==
    /\ pc = "guard"
    /\ ret.polls < MaxPolls
    /\ \E o \in GuardObservations :
          /\ ret' = guard_poll(ret, o)
          /\ pc' = IF ret'.left_by = "break" THEN "guarded" ELSE "guard"
    /\ UNCHANGED <<formVars, call>>

\* The while test of the guard finds its deadline passed.
GuardTimesOut ==
    /\ pc = "guard"
    /\ ret' = [ret EXCEPT !.left_by = "deadline"]
    /\ pc' = "guarded"
    /\ UNCHANGED <<formVars, call>>

\* The attempt goes on after the guard: close_any_select2, then the click
\* that opens the widget.
AttemptOpensWidget ==
    /\ pc = "guarded"
    /\ ret' = [ret EXCEPT !.opened = TRUE]
    /\ pc' = "opened"
    /\ UNCHANGED <<formVars, call>>

NextGuard == AttemptStarts \/ GuardPolls \/ GuardTimesOut \/ AttemptOpensWidget

SpecGuard == InitGuard /\ [][NextGuard]_vars

\* ------------------------------------------- fill_select2: choosing and committing
\* Bound: the number of rows of a results list.
MaxRows == 2

\* A row of the results list: its text, and whether reading the text raises
\* (a stale element).
Row(text, stale) == [text |-> text, stale |-> stale]

\* "buscando", "sin resultados" and "seleccione" as characters.
Buscando == <<"b", "u", "s", "c", "a", "n", "d", "o">>
SinResultados == <<"s", "i", "n", " ", "r", "e", "s", "u", "l", "t", "a", "d", "o", "s">>
Seleccione == <<"s", "e", "l", "e", "c", "c", "i", "o", "n", "e">>

\* is_real_option(li_el)
is_real_option(li) ==
    IF li.stale THEN FALSE
    ELSE LET t == normalize_text(li.text.chars) IN
         IF t = << >> THEN FALSE
         ELSE IF Contains(t, Buscando) THEN FALSE
         ELSE IF Contains(t, SinResultados) THEN FALSE
         ELSE IF Contains(t, Seleccione) THEN FALSE
         ELSE TRUE

\* value.split(",", 1)[0].strip()
HeadBeforeComma(cs) ==
    LET commas == {i \in 1..Len(cs) : cs[i] = ","} IN
    IF commas = {} THEN Strip(cs)
    ELSE Strip(SubSeq(cs, 1, (CHOOSE i \in commas : \A j \in commas : i <= j) - 1))

\* query_text: the part before the first comma for idProductor, when the
\* value has a comma and that part is not empty; the value otherwise.
query_text(select_id, value) ==
    IF select_id = "idProductor" /\ \E i \in 1..Len(value) : value[i] = ","
    THEN LET head == HeadBeforeComma(value) IN IF head # << >> THEN head ELSE value
    ELSE value

Indexes(rows) == [i \in 1..Len(rows) |-> i]

\* The choice that takes the first row of the list, placeholder or not.
choose_row_unfiltered(rows, highlighted, value, query) ==
    IF rows = << >> THEN 0 ELSE 1

\* The row _attempt() chooses, as its index in the results list, 0 for
\* None: the rows are filtered by is_real_option; then the first row whose
\* normalized text equals the normalized value or query, else the first row
\* containing either, else the first highlighted real row, else the first
\* real row.
choose_row(rows, highlighted, value, query) ==
    LET results == SelectSeq(Indexes(rows), LAMBDA i : is_real_option(rows[i]))
        target_norm_full == normalize_text(value)
        target_norm_query == normalize_text(query)
        norm(i) == normalize_text(rows[i].text.chars)
        exact == SelectSeq(results, LAMBDA i : norm(i) \in {target_norm_full, target_norm_query})
        partial == SelectSeq(results, LAMBDA i : Contains(norm(i), target_norm_full)
                                                \/ Contains(norm(i), target_norm_query))
        hl == IF highlighted # 0 /\ is_real_option(rows[highlighted]) THEN <<highlighted>> ELSE << >>
    IN IF exact # << >> THEN exact[1]
       ELSE IF partial # << >> THEN partial[1]
       ELSE IF results # << >> THEN (IF hl # << >> THEN hl[1] ELSE results[1])
       ELSE 0

\* The check made on the rendered text of idCliente: not empty and holding
\* neither "Buscar" nor "Seleccione", as written.
applied_text(chars) ==
    chars # << >> /\ ~Contains(chars, <<"B", "u", "s", "c", "a", "r">>) /\ ~Contains(chars, <<"S", "e", "l", "e", "c", "c", "i", "o", "n", "e">>)

\* A commit action of _attempt(): ENTER sent to the search box (row is the
\* row the page has highlighted, 0 for none), a click on a row, or the forced
\* selection of a row by script.
CommitOp(op, row, sent) == [op |-> op, row |-> row, ok |-> sent]

\* The commit step that forces the selection as soon as the keystroke failed.
commit_row_forcing_early(select_id, si, rows, highlighted, chosen, enter_ok, click_applies) ==
    IF chosen = 0 THEN << >>
    ELSE IF select_id = "idCliente"
    THEN LET a1 == IF si THEN <<CommitOp("ENTER", IF enter_ok THEN highlighted ELSE 0, enter_ok)>>
                   ELSE << >>
             committed1 == IF si /\ enter_ok THEN highlighted ELSE 0
             applied1 == committed1 # 0 /\ ~rows[committed1].stale
                         /\ applied_text(Strip(rows[committed1].text.chars))
             a3 == IF ~applied1 /\ si THEN <<CommitOp("force", chosen, TRUE)>> ELSE << >>
         IN a1 \o a3
    ELSE <<CommitOp("click", chosen, TRUE)>>

\* The commit step of _attempt() in selenium_helpers.py. Nothing is done
\* without a chosen row. For idCliente: with a search box, ENTER is sent
\* (exception swallowed); unless the rendered text then shows a selection,
\* the chosen row is clicked; unless the text shows one after that, and with
\* a search box, the chosen row is forced by script. For every other select
\* the chosen row is clicked.
commit_row(select_id, si, rows, highlighted, chosen, enter_ok, click_applies) ==
    IF chosen = 0 THEN << >>
    ELSE IF select_id = "idCliente"
    THEN LET a1 == IF si THEN <<CommitOp("ENTER", IF enter_ok THEN highlighted ELSE 0, enter_ok)>>
                   ELSE << >>
             committed1 == IF si /\ enter_ok THEN highlighted ELSE 0
             applied1 == committed1 # 0 /\ ~rows[committed1].stale
                         /\ applied_text(Strip(rows[committed1].text.chars))
             a2 == IF ~applied1 THEN <<CommitOp("click", chosen, TRUE)>> ELSE << >>
             applied2 == applied1 \/ (click_applies /\ applied_text(Strip(rows[chosen].text.chars)))
             a3 == IF ~applied2 /\ si THEN <<CommitOp("force", chosen, TRUE)>> ELSE << >>
         IN a1 \o a2 \o a3
    ELSE <<CommitOp("click", chosen, TRUE)>>

\* Rows of a results list: a row equal to the value, one equal to the part
\* before its comma in capitals, one containing it, an unrelated row,
\* placeholder and loading rows, and a row that went stale.
RowPool ==
    {Row(Text("Paz, A", <<"P", "a", "z", ",", " ", "A">>), FALSE), Row(Text("PAZ", <<"P", "A", "Z">>), FALSE), Row(Text("La Paz, A", <<"L", "a", " ", "P", "a", "z", ",", " ", "A">>), FALSE),
     Row(Text("Rio", <<"R", "i", "o">>), FALSE), Row(Text("Seleccione", <<"S", "e", "l", "e", "c", "c", "i", "o", "n", "e">>), FALSE), Row(Text("Buscando...", <<"B", "u", "s", "c", "a", "n", "d", "o", ".", ".", ".">>), FALSE),
     Row(Text("Paz, A", <<"P", "a", "z", ",", " ", "A">>), TRUE)}

RowLists == UNION {[1..n -> RowPool] : n \in 0..MaxRows}

\* The values searched for: one with a comma, one without.
CommitValues == {<<"P", "a", "z", ",", " ", "A">>, <<"R", "i", "o">>}

InitCommit ==
    /\ InitIdleForm
    /\ pc = "call"
    /\ \E select_id \in SelectIds, si \in BOOLEAN, rows \in RowLists, value \in CommitValues,
          enter_ok \in BOOLEAN, click_applies \in BOOLEAN :
       \E highlighted \in 0..Len(rows) :
          call = [fn |-> "commit", select_id |-> select_id, si |-> si, rows |-> rows,
                  highlighted |-> highlighted, value |-> value,
                  enter_ok |-> enter_ok, click_applies |-> click_applies]
    /\ ret = NoCall

\* The rows are listed and filtered and one is chosen.
ChooseRow ==
    /\ pc = "call"
    /\ ret' = [chosen |-> choose_row(call.rows, call.highlighted, call.value,
                                     query_text(call.select_id, call.value)),
               ops |-> << >>]
    /\ pc' = "chosen"
    /\ UNCHANGED <<formVars, call>>

\* The chosen row is committed.
CommitRow ==
    /\ pc = "chosen"
    /\ ret' = [ret EXCEPT !.ops = commit_row(call.select_id, call.si, call.rows, call.highlighted,
                                             ret.chosen, call.enter_ok, call.click_applies)]
    /\ pc' = "committed"
    /\ UNCHANGED <<formVars, call>>

NextCommit == ChooseRow \/ CommitRow

SpecCommit == InitCommit /\ [][NextCommit]_vars

\* ---------------------------------------------------------------- query text
\* Bound: the length of the values a query is composed from.
MaxQueryLen == 3

\* query_text of _fill_select2._attempt() in absanet.py: the stripped part
\* before the first comma for idCliente and idProductor, when the value has a
\* comma and that part is not empty; the value otherwise.
_query_text(select_id, value) ==
    IF select_id \in {"idCliente", "idProductor"} /\ \E i \in 1..Len(value) : value[i] = ","
    THEN LET head == HeadBeforeComma(value) IN IF head # << >> THEN head ELSE value
    ELSE value

InitQuery ==
    /\ InitIdleForm
    /\ pc = "call"
    /\ \E select_id \in SelectIds, n \in 0..MaxQueryLen :
       \E value \in [1..n -> {"a", ",", " "}] :
          call = [fn |-> "query_text", select_id |-> select_id, value |-> value]
    /\ ret = NoCall

\* The query is composed by fill_select2 of selenium_helpers.py.
ComposeQuery ==
    /\ pc = "call"
    /\ ret' = [modular |-> query_text(call.select_id, call.value), monolithic |-> << >>]
    /\ pc' = "modular"
    /\ UNCHANGED <<formVars, call>>

\* The query is composed by _fill_select2 of absanet.py, for the same field
\* and value.
ComposeQueryMonolithic ==
    /\ pc = "modular"
    /\ ret' = [ret EXCEPT !.monolithic = _query_text(call.select_id, call.value)]
    /\ pc' = "both"
    /\ UNCHANGED <<formVars, call>>

NextQuery == ComposeQuery \/ ComposeQueryMonolithic

SpecQuery == InitQuery /\ [][NextQuery]_vars

\* ---------------------------------------------------------------- fill_items_modal_fields
\* bool(v) of a Python value: None, "" and 0 are false.
py_bool(v) ==
    CASE v.t = "none" -> FALSE
      [] v.t = "str" -> v.s # ""
      [] OTHER -> v.n # 0

\* The lines of the log fill_items_modal_fields returns.
ItemsErrorLine(input_id) == [kind |-> "items_error", key |-> input_id]
ItemsFilledLine(name) == [kind |-> "items_filled", key |-> name]

\* What the page does to one set_input: "ok"; "wait": the wait for the element
\* raises; "scroll", "clear": scrollIntoView, clear raises (swallowed); "send":
\* send_keys raises.
InputOutcomes == {"ok", "wait", "scroll", "clear", "send"}

\* set_input(input_id, text): wait for the element, scroll it into view,
\* clear it, send str(text); an exception of the wait or of send_keys is
\* logged as "ERROR: <input_id>: <e>" and not passed on.
set_input(st, input_id, text, outcome) ==
    LET o1 == Append(st.ops, Op("presence_of_element_located", input_id, input_id, PyNone, outcome # "wait"))
        o2 == Append(o1, Op("execute_script", input_id, "scrollIntoView", PyNone, outcome # "scroll"))
        o3 == Append(o2, Op("clear", input_id, input_id, PyNone, outcome # "clear"))
        o4 == Append(o3, Op("send_keys", input_id, input_id, PyStr(py_str(text)), outcome # "send"))
    IN CASE outcome = "wait" -> [logs |-> Append(st.logs, ItemsErrorLine(input_id)), ops |-> o1]
         [] outcome = "send" -> [logs |-> Append(st.logs, ItemsErrorLine(input_id)), ops |-> o4]
         [] OTHER -> [logs |-> st.logs, ops |-> o4]

\* The block of one input with "Items: Filled <x>" logged only when set_input
\* logged no error.
items_block_filled_on_success(st, name, input_id, value, outcome) ==
    IF py_bool(value)
    THEN LET s == set_input(st, input_id, value, outcome)
         IN IF Len(s.logs) = Len(st.logs)
            THEN [logs |-> Append(s.logs, ItemsFilledLine(name)), ops |-> s.ops]
            ELSE s
    ELSE st

\* The block of one input: `if <x>: set_input("<Id>", <x>);
\* logs.append("Items: Filled <x>")`.
items_block(st, name, input_id, value, outcome) ==
    IF py_bool(value)
    THEN LET s == set_input(st, input_id, value, outcome)
         IN [logs |-> Append(s.logs, ItemsFilledLine(name)), ops |-> s.ops]
    ELSE st

\* fill_items_modal_fields(driver, wait, anio, marca, patente, chasis, motor):
\* the blocks of anio and marca are commented out; patente, chasis and motor
\* are set in this order; the log is returned.
fill_items_modal_fields(anio, marca, patente, chasis, motor, page) ==
    LET s0 == [logs |-> << >>, ops |-> << >>]
        s1 == items_block(s0, "patente", "Patente", patente, page.Patente)
        s2 == items_block(s1, "chasis", "Chasis", chasis, page.Chasis)
        s3 == items_block(s2, "motor", "Motor", motor, page.Motor)
    IN s3

\* The values of the vehicle fields: missing, empty, zero and set.
ItemValues == {PyNone, PyStr(""), PyInt(0), PyStr("ABC123")}

InitItems ==
    /\ InitIdleForm
    /\ pc = "call"
    /\ \E anio \in {PyNone, PyInt(2020)}, marca \in {PyNone, PyStr("FORD - KA")},
          patente \in ItemValues, chasis \in ItemValues, motor \in ItemValues,
          page \in [{"Patente", "Chasis", "Motor"} -> InputOutcomes] :
          call = [fn |-> "fill_items_modal_fields", anio |-> anio, marca |-> marca,
                  patente |-> patente, chasis |-> chasis, motor |-> motor, page |-> page]
    /\ ret = NoCall

\* fill_items_modal_fields(driver, wait, anio, marca, patente, chasis, motor)
CallFillItems ==
    /\ pc = "call"
    /\ ret' = fill_items_modal_fields(call.anio, call.marca, call.patente, call.chasis,
                                      call.motor, call.page)
    /\ pc' = "returned"
    /\ UNCHANGED <<formVars, call>>

NextItems == CallFillItems

SpecItems == InitItems /\ [][NextItems]_vars

\* ---------------------------------------------------------------- typing the query
\* Bound: the length of the queries typed into the search box.
MaxTypeLen == 3

\* A driver call made while the query is delivered to the search input.
TypeOp(op, arg, returned) == [op |-> op, arg |-> arg, ok |-> returned]

\* What the page does while the query is delivered: has_input (was the search
\* input found: si is not None), clear_ok (did si.clear() return), raise_at
\* (the position of the first delivering call that raises, 0 when none does:
\* the send_keys of that character for idRiesgo, the value-setting script for
\* idCliente, the one send_keys otherwise), events_ok (do the scripts that
\* dispatch input and keyup run), fallback_ok (does the send_keys of the
\* except branch return).
TypingPage(has_input, clear_ok, raise_at, events_ok, fallback_ok) ==
    [has_input |-> has_input, clear_ok |-> clear_ok, raise_at |-> raise_at,
     events_ok |-> events_ok, fallback_ok |-> fallback_ok]

\* The calls of the loop `for ch in str(query_text)` for the first n
\* characters: send_keys(ch), then the script dispatching input and keyup with
\* key ch, whose exception is swallowed.
RECURSIVE typed_chars(_, _, _)
typed_chars(query, n, events_ok) ==
    IF n = 0 THEN << >>
    ELSE typed_chars(query, n - 1, events_ok)
         \o << TypeOp("send_keys", <<query[n]>>, TRUE),
               TypeOp("dispatch_input_keyup", <<query[n]>>, events_ok) >>

\* The except branch of the slow typing with the input cleared before the
\* whole query is sent.
slow_typing_clearing_first(query, page) ==
    LET k == IF page.raise_at = 0 THEN Len(query) ELSE page.raise_at - 1
        o == typed_chars(query, k, page.events_ok)
    IN IF page.raise_at = 0
       THEN [ops |-> o, received |-> query, raised |-> FALSE]
       ELSE [ops |-> o \o << TypeOp("send_keys", <<query[page.raise_at]>>, FALSE),
                             TypeOp("clear", << >>, TRUE),
                             TypeOp("send_keys", query, page.fallback_ok) >>,
             received |-> IF page.fallback_ok THEN query ELSE << >>,
             raised |-> ~page.fallback_ok]

\* The idRiesgo branch: the query is typed one character at a time, each
\* followed by its input and keyup events; when a send_keys of the loop
\* raises, the whole query is sent by one send_keys, the input not being
\* cleared in between; an exception of that send_keys leaves the attempt.
\* received: the characters the search input has received since it was
\* cleared.
slow_typing(query, page) ==
    LET k == IF page.raise_at = 0 THEN Len(query) ELSE page.raise_at - 1
        o == typed_chars(query, k, page.events_ok)
    IN IF page.raise_at = 0
       THEN [ops |-> o, received |-> query, raised |-> FALSE]
       ELSE [ops |-> o \o << TypeOp("send_keys", <<query[page.raise_at]>>, FALSE),
                             TypeOp("send_keys", query, page.fallback_ok) >>,
             received |-> SubSeq(query, 1, k) \o (IF page.fallback_ok THEN query ELSE << >>),
             raised |-> ~page.fallback_ok]

\* The idCliente branch: the query is written into the input's value by a
\* script that dispatches input, and sent by send_keys when the script raises.
scripted_typing(query, page) ==
    IF page.raise_at = 0
    THEN [ops |-> <<TypeOp("execute_script", query, TRUE)>>, received |-> query, raised |-> FALSE]
    ELSE [ops |-> << TypeOp("execute_script", query, FALSE),
                    TypeOp("send_keys", query, page.fallback_ok) >>,
          received |-> IF page.fallback_ok THEN query ELSE << >>,
          raised |-> ~page.fallback_ok]

\* The delivery of the query of one attempt of fill_select2: without a search
\* input the selection is clicked by script and nothing is typed; with one,
\* it is cleared (an exception swallowed) and the query delivered by the
\* branch of the select id.
send_query(select_id, query, page) ==
    LET c == <<TypeOp("clear", << >>, page.clear_ok)>>
        r == CASE select_id = "idCliente" -> scripted_typing(query, page)
               [] select_id = "idRiesgo" -> slow_typing(query, page)
               [] OTHER ->
                    [ops |-> <<TypeOp("send_keys", query, page.raise_at = 0)>>,
                     received |-> IF page.raise_at = 0 THEN query ELSE << >>,
                     raised |-> page.raise_at # 0]
    IN IF ~page.has_input
       THEN [ops |-> <<TypeOp("js_mouse_click", << >>, TRUE)>>, received |-> << >>, raised |-> FALSE]
       ELSE [ops |-> c \o r.ops, received |-> r.received, raised |-> r.raised]

TypedQueries == UNION {[1..n -> {"a", "b"}] : n \in 0..MaxTypeLen}

InitTyping ==
    /\ InitIdleForm
    /\ pc = "call"
    /\ \E select_id \in SelectIds, query \in TypedQueries :
       \E has_input \in BOOLEAN, clear_ok \in BOOLEAN, raise_at \in 0..Len(query),
          events_ok \in BOOLEAN, fallback_ok \in BOOLEAN :
          call = [fn |-> "send_query", select_id |-> select_id, query |-> query,
                  page |-> TypingPage(has_input, clear_ok, raise_at, events_ok, fallback_ok)]
    /\ ret = NoCall

\* The typing block of _attempt.
SendQuery ==
    /\ pc = "call"
    /\ ret' = send_query(call.select_id, call.query, call.page)
    /\ pc' = IF ret'.raised THEN "raised" ELSE "returned"
    /\ UNCHANGED <<formVars, call>>

NextTyping == SendQuery

SpecTyping == InitTyping /\ [][NextTyping]_vars

\* ================================================================ properties
Built == pc \in {"built", "rebuilt"}
HasValue(v) == v # PyNone /\ v # PyStr("")
HasLocator(f) == Truthy(FieldsGet(mapping.fields, f))
StepsOf(f) == { i \in 1..Len(plan) : plan[i][1] = f }
IndexOf(f) == CHOOSE i \in 1..Len(plan) : plan[i][1] = f

\* C1: build_fill_plan produces exactly one step for each PolicyData field
\* (cant_cuotas, modelo, combustible and vehiculo included) whose value is
\* non-null and non-empty and which has a locator, and no field appears twice.
C1_OneStepPerRecordField ==
    Built =>
        /\ \A f \in FieldNames : (HasValue(data[f]) /\ HasLocator(f)) => Cardinality(StepsOf(f)) = 1
        /\ \A f \in FieldNames : Cardinality(StepsOf(f)) <= 1

\* C2: every step of a built plan has a value that is neither None nor "" (the
\* record's value of its field) and the non-empty locator mapping["fields"] holds
\* for its field; a field whose value is None or "" or which has no locator has
\* no step.
C2_StepsHaveValueAndLocator ==
    Built =>
        /\ \A i \in 1..Len(plan) :
              /\ HasValue(plan[i][3])
              /\ plan[i][3] = data[plan[i][1]]
              /\ plan[i][2].value = plan[i][3]
              /\ HasLocator(plan[i][1])
              /\ plan[i][2].selector = mapping.fields[plan[i][1]]
        /\ \A f \in FieldNames : (~HasValue(data[f]) \/ ~HasLocator(f)) => StepsOf(f) = {}

\* A plan with a step was built from a record that also has a valued field
\* without a locator.
C2_Witness ==
    /\ pc = "built"
    /\ Len(plan) = 1
    /\ \E f \in FieldNames : HasValue(data[f]) /\ ~HasLocator(f)

\* C3: in a built plan with both an aseguradora and a riesgo step, aseguradora
\* comes first.
C3_AseguradoraBeforeRiesgo ==
    Built =>
        \A i, j \in 1..Len(plan) :
            (plan[i][1] = "aseguradora" /\ plan[j][1] = "riesgo") => i < j

C3_Witness ==
    /\ pc = "built"
    /\ StepsOf("aseguradora") # {} /\ StepsOf("riesgo") # {}

\* C4: in a built plan the cliente step, if present, comes after every other
\* step of the condiciones tab.
C4_ClienteLastInCondiciones ==
    Built =>
        \A i, j \in 1..Len(plan) :
            (plan[i][1] = "cliente" /\ j # i /\ plan[j][2].tab = "condiciones") => j < i

\* The tab each field belongs to.
C5_TabOf(f) ==
    IF f \in {"productor", "aseguradora", "riesgo", "cliente", "moneda", "tipo_contacto_ssn",
              "tipo_iva", "tipo_renovacion", "clausula_ajuste", "tipo_vigencia",
              "inicio_vigencia", "refacturacion"} THEN "condiciones"
    ELSE IF f \in {"marca", "anio", "patente", "chasis", "motor"} THEN "vehiculo"
    ELSE "montos"

C5_TabRank(t) == IF t = "condiciones" THEN 1 ELSE IF t = "vehiculo" THEN 2 ELSE 3

\* C5: every step of a built plan carries the tab of its field, and along the
\* plan the tabs follow the sequence condiciones, vehiculo, montos: no step of
\* an earlier tab comes after a step of a later tab.
C5_TabsFixedAndInSequence ==
    Built =>
        /\ \A i \in 1..Len(plan) : plan[i][2].tab = C5_TabOf(plan[i][1])
        /\ \A i, j \in 1..Len(plan) :
              i < j => C5_TabRank(plan[i][2].tab) <= C5_TabRank(plan[j][2].tab)

\* A built plan with a vehiculo step and a montos step.
C5_Witness ==
    /\ pc = "built"
    /\ StepsOf("patente") # {} /\ StepsOf("prima_total") # {}

\* C6: a call of build_fill_plan changes neither the record nor the mapping,
\* and a second call on the same record and mapping returns the same plan.
C6_DeterministicAndFrame ==
    /\ [](pc = "rebuilt" => plan = prevPlan)
    /\ [][(pc' # pc /\ pc' \in {"built", "rebuilt"}) => (data' = data /\ mapping' = mapping)]_vars

\* build_fill_plan was called twice and returned a plan of two steps.
C6_Witness ==
    /\ pc = "rebuilt"
    /\ Len(plan) = 2

\* C7: with dry_run set, fill_from_plan issues no page-mutating operation.
C7_DryRunTouchesNothing ==
    dry_run => ops = << >>

OutcomeLines == SelectSeq(logs, LAMBDA l : l.kind \in {"would_fill", "filled", "error"})

\* C8: with dry_run set, the log holds exactly one "Would fill" line per
\* processed step, in plan order, and no "Filled" or "ERROR filling" line; when
\* fill_from_plan returns, every step of the plan has been processed.
C8_DryRunOneLinePerStep ==
    (dry_run /\ pc \in {"loop", "done", "raised"}) =>
        /\ Len(OutcomeLines) = idx - 1
        /\ \A i \in 1..Len(OutcomeLines) :
              OutcomeLines[i].kind = "would_fill" /\ OutcomeLines[i].key = plan[i][1]
        /\ pc = "done" => idx - 1 = Len(plan)

\* A dry run of a two-step plan returned, with a tab-switch notice in its log.
C8_Witness ==
    /\ pc = "done" /\ dry_run
    /\ Len(plan) = 2
    /\ \E i \in 1..Len(logs) : logs[i].kind = "switched"

\* C9: in live mode fill_from_plan never aborts: every step is processed, and
\* the log holds, in plan order, one "ERROR filling" line for each step whose
\* try block raised and one "Filled" line for each other step.
C9_LiveContinuesPastFailures ==
    (~dry_run /\ pc \in {"loop", "done", "raised"}) =>
        /\ pc # "raised"
        /\ Len(OutcomeLines) = idx - 1
        /\ Len(raised) = idx - 1
        /\ \A i \in 1..Len(OutcomeLines) :
              /\ OutcomeLines[i].key = plan[i][1]
              /\ OutcomeLines[i].kind = IF raised[i] THEN "error" ELSE "filled"
        /\ pc = "done" => idx - 1 = Len(plan)

\* A live run of a two-step plan returned after the first step's filler raised
\* and the second's succeeded.
C9_Witness ==
    /\ pc = "done" /\ ~dry_run
    /\ raised = <<TRUE, FALSE>>

\* C10: in live mode, a step is logged as filled only after the dependency wait
\* (wait_for_field_post_effect) has run for its field.
C10_WaitBeforeSuccess ==
    ~dry_run =>
        \A i \in 1..Len(logs) :
            logs[i].kind = "filled" =>
                \E j \in 1..Len(ops) :
                    ops[j].op = "wait_for_field_post_effect" /\ ops[j].field = logs[i].key

\* The tab fill_from_plan has as active after the first i steps of the plan:
\* the tab of the last of them that has one, none if none has.
RECURSIVE C11_ActiveTab(_)
C11_ActiveTab(i) ==
    IF i = 0 THEN NoneTab
    ELSE IF plan[i][2].tab # NoneTab THEN plan[i][2].tab
    ELSE C11_ActiveTab(i - 1)

C11_Switches(i) == plan[i][2].tab # NoneTab /\ plan[i][2].tab # C11_ActiveTab(i - 1)

\* The calls of the tab navigator the first n steps are to make.
RECURSIVE C11_ExpectedCalls(_)
C11_ExpectedCalls(n) ==
    IF n = 0 THEN << >>
    ELSE C11_ExpectedCalls(n - 1)
         \o (IF C11_Switches(n) THEN << <<n, plan[n][2].tab>> >> ELSE << >>)

\* The log of the first n steps, outcome entries reduced to their field.
RECURSIVE C11_ExpectedLog(_)
C11_ExpectedLog(n) ==
    IF n = 0 THEN << >>
    ELSE C11_ExpectedLog(n - 1)
         \o (IF C11_Switches(n) THEN <<[kind |-> "switched", key |-> plan[n][2].tab]>> ELSE << >>)
         \o <<[kind |-> "outcome", key |-> plan[n][1]]>>

C12_TabActivationNeverAborts ==
    /\ pc # "raised"
    /\ pc = "done" => idx - 1 = Len(plan)
    /\ \A k \in 1..Len(ops) :
          ops[k].op = "click" =>
              \E i \in 1..Len(plan) :
                  plan[i][1] = ops[k].field /\ plan[i][2].tab \in DOMAIN mapping.tabs

\* Does the page let an attempt of fill_select2 go through.
C13_Succeeds(select_id, out) ==
    /\ out.exc = "none"
    /\ select_id = "idRiesgo" => (out.rendered_ok \/ out.hidden_set)

\* C13: fill_select2 makes at most 3 attempts; it returns normally exactly
\* when an attempt succeeds, and then that attempt is its last one and the
\* first that succeeds; every attempt made, the ones after a stale or driver
\* error included, starts afresh by locating the base element again (when it
\* has an id) and, unless that fails, closes a stray overlay before it opens
\* the widget; the terminal failure is raised only after three failed
\* attempts.
C13_AtMostThreeAttempts ==
    (call.fn = "fill_select2" /\ pc \in {"returned", "raised"}) =>
        LET sid == call.select_id
            outs == call.outs
        IN
        /\ ret.made \in 1..3
        /\ Len(ret.trace) = ret.made
        /\ \A k \in 1..(ret.made - 1) : ~C13_Succeeds(sid, outs[k])
        /\ pc = "returned" <=> C13_Succeeds(sid, outs[ret.made])
        /\ pc = "raised" => (ret.made = 3 /\ \A k \in 1..3 : ~C13_Succeeds(sid, outs[k]))
        /\ \A k \in 1..ret.made :
              /\ sid # "" => ret.trace[k][1] = "find_element"
              /\ ~(outs[k].exc # "none" /\ outs[k].at = "find_element") =>
                    \E i, j \in 1..Len(ret.trace[k]) :
                        /\ i < j
                        /\ ret.trace[k][i] = "close_any_select2"
                        /\ ret.trace[k][j] = "open"

\* fill_select2 returned from its third attempt, after a stale reference in
\* the first and a driver error in the second.
C13_Witness ==
    /\ call.fn = "fill_select2" /\ pc = "returned"
    /\ ret.made = 3
    /\ call.outs[1].exc = "stale" /\ call.outs[2].exc = "driver"

\* C14: in live mode, a select2 step on whose every attempt the rendered text
\* did not become the query or the value before the verification deadline
\* ends by the terminal failure after three attempts and gets an "ERROR
\* filling" line, and the steps after it are still processed.
C14_UnverifiedSelectionFails ==
    (~dry_run /\ pc \in {"loop", "done"}) =>
        /\ \A i \in 1..Len(attempts) :
              (attempts[i] # << >> /\ \A k \in 1..Len(attempts[i]) : ~attempts[i][k].rendered_ok) =>
                  /\ Len(attempts[i]) = 3
                  /\ raised[i]
                  /\ OutcomeLines[i] = ErrorLine(plan[i][1])
        /\ pc = "done" => idx - 1 = Len(plan)

\* Did the attempts a of a select2 step end by a successful one after stale or
\* driver errors only.
C15_RetrySucceeded(a) ==
    /\ Len(a) \in {2, 3}
    /\ \A k \in 1..(Len(a) - 1) : a[k].exc = "webdriver"
    /\ a[Len(a)].exc = "none"

\* C15: in live mode, a select2 step whose first attempt, or first two
\* attempts, raised a stale or driver error and whose next attempt succeeded
\* did not raise: its fill_select2 operation returned normally and its log
\* line is "Filled", not "ERROR filling".
C15_TransientErrorNotSurfaced ==
    (~dry_run /\ pc \in {"loop", "done"}) =>
        \A i \in 1..Len(attempts) :
            C15_RetrySucceeded(attempts[i]) =>
                /\ ~raised[i]
                /\ OutcomeLines[i] = FilledLine(plan[i][1])
                /\ \E j \in 1..Len(ops) :
                      ops[j].op = "fill_select2" /\ ops[j].field = plan[i][1] /\ ops[j].ok

\* A live run of one select2 step returned after two driver errors and a
\* successful third attempt.
C15_Witness ==
    /\ pc = "done" /\ ~dry_run
    /\ Len(plan) = 1
    /\ Len(attempts) = 1 /\ Len(attempts[1]) = 3 /\ C15_RetrySucceeded(attempts[1])
    /\ logs[Len(logs)] = FilledLine(plan[1][1])

\* The widget kind a selector type stands for, upper or lower case.
C16_KindOf(t) ==
    CASE t \in {"select", "Select"} -> "select"
      [] t \in {"select2", "Select2"} -> "select2"
      [] t = "autocomplete" -> "autocomplete"
      [] OTHER -> "input"

\* The operations a call made on the element after scrolling it into view.
C16_OpNames == { ret.ops[i].op : i \in 2..Len(ret.ops) }

\* The call ran the widget algorithm of its selector's type and no other.
C16_RanAlgorithmOfType ==
    LET kind == C16_KindOf(call.selector.type) IN
    /\ kind = "select" =>
          /\ ret.ops[2].op = "js_select_by_text_or_value"
          /\ C16_OpNames \subseteq {"js_select_by_text_or_value",
                                     "select_by_visible_text_tolerant", "execute_script"}
    /\ kind = "select2" => C16_OpNames = {"fill_select2"}
    /\ kind = "autocomplete" => C16_OpNames = {"fill_autocomplete"}
    /\ kind = "input" =>
          /\ Len(ret.ops) = 3
          /\ ret.ops[2].op = "clear"
          /\ ret.ops[3].op = "send_keys" /\ ret.ops[3].arg = PyStr(py_str(call.value))

\* C16 as stated: every call of fill_field that located its element ran
\* exactly the widget algorithm of its selector's type, compared without
\* regard to case: select, select2, autocomplete, and for input or a missing
\* or unknown type clear then send_keys(str(value)).
C16_OneAlgorithmByType ==
    (call.fn = "fill_field" /\ pc \in {"returned", "raised"} /\ call.page.located) =>
        C16_RanAlgorithmOfType

\* C16, amended: the same for every field but inicio_vigencia; for
\* inicio_vigencia, whatever the type, fill_field runs no widget algorithm by
\* type: it writes the date part of str(value) into the control by script, and
\* clears, types it and sends TAB only when that script is rejected.
C16_OneAlgorithmByTypeButDate ==
    (call.fn = "fill_field" /\ pc \in {"returned", "raised"} /\ call.page.located) =>
        /\ call.field_key # "inicio_vigencia" => C16_RanAlgorithmOfType
        /\ call.field_key = "inicio_vigencia" =>
              /\ pc = "returned"
              /\ ret.ops[2].op = "execute_script" /\ ret.ops[2].target = "value=,input,change"
              /\ ret.ops[2].arg = PyStr(DatePart(py_str(call.value)))
              /\ C16_OpNames \subseteq {"execute_script", "clear", "send_keys"}
              /\ ("clear" \in C16_OpNames) <=> ~call.page.scriptOk

\* fill_field ran fill_select2, and nothing else, for a selector of type
\* "Select2".
C16_Witness ==
    /\ call.fn = "fill_field" /\ pc = "returned"
    /\ call.field_key = "aseguradora" /\ call.selector.type = "Select2"
    /\ C16_OpNames = {"fill_select2"}

\* The entry of the translation table for a field and a value: the entry of
\* the value itself, else the entry of str(value), else the value.
C17_Translated(field_key, value, table) ==
    LET PyKey == PyStr(py_str(value)) IN
    IF field_key \notin DOMAIN table THEN value
    ELSE IF value \in DOMAIN table[field_key] THEN table[field_key][value]
    ELSE IF PyKey \in DOMAIN table[field_key] THEN table[field_key][PyKey]
    ELSE value

\* The value a call handed to its widget algorithm, as a string.
C17_UsedArg == IF ret.ops[2].op = "clear" THEN ret.ops[3].arg ELSE ret.ops[2].arg

\* The value the claim has the call use.
C17_ExpectedArg ==
    IF C16_KindOf(call.selector.type) = "select"
    THEN PyStr(py_str(C17_Translated(call.field_key, call.value, call.value_map)))
    ELSE PyStr(py_str(call.value))

\* C17 as stated: every call of fill_field that located its element used, for
\* type select, the table's entry for the raw value, else its entry for
\* str(value), else the raw value, and for every other type the raw value.
C17_TranslationOnlyForSelect ==
    (call.fn = "fill_field" /\ pc \in {"returned", "raised"} /\ call.page.located) =>
        C17_UsedArg = C17_ExpectedArg

\* C17, amended: the same for every field but inicio_vigencia; for
\* inicio_vigencia fill_field consults no table and writes the date part of
\* str(value), whatever the type.
C17_TranslationOnlyForSelectButDate ==
    (call.fn = "fill_field" /\ pc \in {"returned", "raised"} /\ call.page.located) =>
        /\ call.field_key # "inicio_vigencia" => C17_UsedArg = C17_ExpectedArg
        /\ call.field_key = "inicio_vigencia" =>
              C17_UsedArg = PyStr(DatePart(py_str(call.value)))

\* fill_field handed "SI" to the select matcher for the value 1 of
\* clausula_ajuste, through the table's entry for "1".
C17_Witness ==
    /\ call.fn = "fill_field" /\ pc = "returned"
    /\ call.field_key = "clausula_ajuste" /\ call.selector.type = "select"
    /\ call.value = PyInt(1) /\ call.value_map = SomeValueMap
    /\ C17_UsedArg = PyStr("SI")

\* The positions of the options whose normalized text or value is the
\* normalized target, and of those that contain it.
C18_Exact ==
    { k \in 1..Len(call.options) :
        \/ normalize_text(call.options[k].text.chars) = normalize_text(call.target.chars)
        \/ normalize_text(call.options[k].value.chars) = normalize_text(call.target.chars) }

C18_Substring ==
    { k \in 1..Len(call.options) :
        \/ Contains(normalize_text(call.options[k].text.chars), normalize_text(call.target.chars))
        \/ Contains(normalize_text(call.options[k].value.chars), normalize_text(call.target.chars)) }

\* The positions of the options whose text is the target itself.
C18_Literal == { k \in 1..Len(call.options) : call.options[k].text.chars = call.target.chars }

C18_Min(S) == CHOOSE k \in S : \A j \in S : k <= j

\* The index (from 0) the claim has the matcher select, -1 for none.
C18_Expected ==
    IF C18_Exact # {} THEN C18_Min(C18_Exact) - 1
    ELSE IF C18_Substring # {} THEN C18_Min(C18_Substring) - 1
    ELSE -1

\* C18 as stated: the native-select matcher selects the lowest-index option
\* whose normalized text or value equals the normalized target, and only when
\* there is none the lowest-index option that contains it; for the options
\* Seleccione, Consumidor Final, Responsable Inscripto and the target
\* "consumidor final" it selects index 1.
C18_ExactThenSubstring ==
    (call.fn = "select" /\ pc \in {"returned", "raised"}) =>
        /\ ret.selected = C18_Expected
        /\ (call.options = IvaOptions /\ call.target = IvaTarget) => ret.selected = 1

\* C18, amended: the same, except that when the script matcher selected
\* nothing and an option's text is the target itself, character for character,
\* the lowest-index such option is selected, even after an option that equals
\* the target only after normalization.
C18_LiteralThenExactThenSubstring ==
    (call.fn = "select" /\ pc \in {"returned", "raised"}) =>
        /\ ret.selected = IF ~call.js_runs /\ C18_Literal # {}
                          THEN C18_Min(C18_Literal) - 1
                          ELSE C18_Expected
        /\ (call.options = IvaOptions /\ call.target = IvaTarget) => ret.selected = 1

\* The matcher selected index 1, whose text is the target after
\* normalization, although the option at index 0 contains the target.
C18_Witness ==
    /\ call.fn = "select" /\ pc = "returned"
    /\ Len(call.options) = 2
    /\ call.options[1].text.str = "No si" /\ call.options[2].text.str = "Sí"
    /\ call.target.str = "si"
    /\ ret.selected = 1

\* No option matches the target, neither exactly nor as a substring.
C19_NoOptionMatches == C18_Exact = {} /\ C18_Substring = {}

\* C19: filling a native select of which no option matches the target in
\* either pass raises; no option is selected and nothing is written into the
\* control's value.
C19_NoMatchRaises ==
    (call.fn = "select" /\ pc \in {"returned", "raised"} /\ C19_NoOptionMatches) =>
        /\ pc = "raised"
        /\ ret.selected = -1
        /\ \A i \in 1..Len(ret.ops) :
              ~(ret.ops[i].op = "execute_script" /\ ret.ops[i].target = "value=,change" /\ ret.ops[i].ok)

\* C20: for a field other than aseguradora, riesgo and cliente,
\* wait_for_field_post_effect returns at once: it never sleeps, never runs a
\* script and never polls; for riesgo it never polls and returns after one
\* pause, of 0.25 s, its only script being the constant "return 1".
C20_NoWaitForOtherFields ==
    (call.fn = "wait_for_field_post_effect" /\ pc # "call") =>
        /\ call.field_key \notin {"aseguradora", "riesgo", "cliente"} =>
              (pc = "returned" /\ ret.events = << >>)
        /\ call.field_key = "riesgo" =>
              /\ pc = "returned"
              /\ SelectSeq(ret.events, LAMBDA e : e.ev = "sleep") = <<Sleep(250)>>
              /\ \A i \in 1..Len(ret.events) :
                    ret.events[i].ev = "execute_script" => ret.events[i].script = "return 1"
              /\ PollsMade <= 1

\* wait_for_field_post_effect returned for riesgo after its pause.
C20_Witness ==
    /\ call.fn = "wait_for_field_post_effect" /\ pc = "returned"
    /\ call.field_key = "riesgo"
    /\ Len(ret.events) = 2 /\ ret.events[2] = Sleep(250)

\* A placeholder or loading label, as an option text.
C21_Placeholder(t) == t \in {"Seleccione...", "SELECCIONE", "Cargando...", "Buscando..."}

C21_FirstIsData(s) == Len(s.texts) = 0 \/ ~C21_Placeholder(s.texts[1])

\* The readiness condition of a field on a page.
C21_Condition(field_key, dom) ==
    IF field_key = "aseguradora"
    THEN Len(dom["idRiesgo"].texts) > 1 /\ C21_FirstIsData(dom["idRiesgo"])
    ELSE \A id \in {"Moneda", "TipoRenovacion", "TipoVigencia", "NroCuota"} :
            dom[id].present /\ ~dom[id].disabled /\ Len(dom[id].texts) > 0 /\ C21_FirstIsData(dom[id])

C21_Scripts == SelectSeq(ret.events, LAMBDA e : e.ev = "execute_script")

\* The latest pass of the loop observed the page and found the condition true.
C21_FoundReady ==
    /\ C21_Scripts # << >>
    /\ C21_Scripts[Len(C21_Scripts)].result # "raise"
    /\ C21_Condition(call.field_key, ret.dom)

C21_ReturnsOnReadyOrDeadline ==
    (call.fn = "wait_for_field_post_effect" /\ call.field_key \in {"aseguradora", "cliente"}
        /\ pc # "call") =>
        /\ pc \in {"poll", "returned"}
        /\ ret.end = 3000
        /\ pc = "poll" => (ret.left_by = "-" /\ ~C21_FoundReady)
        /\ pc = "returned" =>
              \/ ret.left_by = "break" /\ C21_FoundReady
              \/ ret.left_by = "deadline" /\ ~C21_FoundReady

\* C21: the settle wait after aseguradora (cliente) returns as soon as one
\* observation finds the readiness condition true (the risk list has more than
\* one option and its first option is no placeholder; Moneda, TipoRenovacion,
\* TipoVigencia and NroCuota are, in one observation, all enabled, non-empty
\* and showing no placeholder), otherwise it returns when the 3 second
\* deadline passes; it never raises, and it always returns.
C21_SettleWait == [](C21_ReturnsOnReadyOrDeadline /\ pc # "raised") /\ <>(pc = "returned")

\* The wait after cliente left its loop on the second observation, the
\* first one having found a select not ready.
C21_Witness ==
    /\ call.fn = "wait_for_field_post_effect" /\ call.field_key = "cliente"
    /\ pc = "returned" /\ ret.left_by = "break"
    /\ Len(C21_Scripts) = 2 /\ C21_Scripts[1].result = "false"
    /\ C21_Condition("cliente", ret.dom)

\* C22: the form is never submitted: no ENTER keystroke is delivered to a
\* field while no results list of its widget is present on the page.
C22_NoConfirmWithoutOverlay ==
    (call.fn = "fill_autocomplete" /\ pc \in {"returned", "raised"}) =>
        \A i \in 1..Len(ret.ops) :
            (ret.ops[i].op = "send_keys" /\ ret.ops[i].arg = <<"ENTER">>) => ret.ops[i].list_open

\* C23: when fill_from_plan returns, the log gives the outcome of every field
\* of the record: each field has a line telling that it was filled, that it
\* failed, or that it was skipped (a field without a step in the plan is one
\* that add left out for an empty value or a missing locator).
C23_EveryFieldHasOutcome ==
    pc = "done" =>
        \A f \in FieldNames : \E i \in 1..Len(logs) : logs[i].kind # "switched" /\ logs[i].key = f

\* The unaccented lower-case letter of a letter in any case, with or without
\* accent; "" for a character that is no letter.
C24_Letter(c) ==
    CASE c \in {"a", "A", "á", "Á"} -> "a"
      [] c \in {"e", "E", "é", "É"} -> "e"
      [] c \in {"i", "I", "í", "Í"} -> "i"
      [] c \in {"o", "O", "ó"} -> "o"
      [] c \in {"j", "J"} -> "j" [] c \in {"s", "S"} -> "s" [] c \in {"g", "G"} -> "g"
      [] c \in {"r", "R"} -> "r" [] c \in {"c", "C"} -> "c"
      [] OTHER -> ""

C24_Space == {" ", "\t", "\n"}

\* The string without its leading and trailing whitespace.
C24_Trim(s) ==
    LET ink == {i \in 1..Len(s) : s[i] \notin C24_Space} IN
    IF ink = {} THEN << >>
    ELSE SubSeq(s, CHOOSE i \in ink : \A j \in ink : i <= j, CHOOSE i \in ink : \A j \in ink : j <= i)

\* The strings that differ from s only in letter case, diacritics and leading
\* or trailing whitespace.
C24_Variants(s) ==
    LET t == C24_Trim(s)
        forms(c) == IF C24_Letter(c) = "" THEN {c}
                    ELSE {d \in {"a", "A", "á", "Á"} : C24_Letter(d) = C24_Letter(c)}
        pads == {<< >>, <<" ">>, <<"\t", " ">>}
    IN {l \o v \o r : l \in pads, r \in pads,
                       v \in {w \in [1..Len(t) -> {"a", "A", "á", "Á", " ", "-", "º"}] :
                                 \A i \in 1..Len(t) : w[i] \in forms(t[i])}}

\* What normalize_text returns when each letter becomes its unaccented
\* lower-case letter, each character of replaced its replacement and every
\* other character between the outer whitespace is kept.
C24_Expected(s, replaced) ==
    LET t == C24_Trim(s) IN
    [i \in 1..Len(t) |-> IF C24_Letter(t[i]) # "" THEN C24_Letter(t[i])
                         ELSE IF t[i] \in DOMAIN replaced THEN replaced[t[i]] ELSE t[i]]

C24_Holds(replaced) ==
    /\ (call.fn = "normalize_text" /\ pc = "returned") =>
          /\ ret.out = C24_Expected(call.s, replaced)
          /\ Len(call.s) <= MaxNormLen =>
                \A t \in C24_Variants(call.s) : normalize_text(t) = ret.out
          /\ call.s = <<"J", "O", "S", "É", " ", "G", "a", "r", "c", "í", "a", " ">> =>
                ret.out = <<"j", "o", "s", "e", " ", "g", "a", "r", "c", "i", "a">>
          /\ call.s = << >> => ret.out = << >>
    /\ (call.fn = "normalize_text" /\ pc = "renormalized") => ret.out = call.s

\* C24: normalize_text is idempotent and maps any two strings that differ
\* only in letter case, diacritics and leading or trailing whitespace to the
\* same result ("JOSÉ García " to "jose garcia", "" to ""); interior whitespace
\* and every other character are kept.
C24_NormalizeFoldsAndKeeps == C24_Holds(<< >>)

\* C24, amended: as above, but a compatibility character is not kept: it is
\* replaced by its NFKD decomposition (the ordinal indicator by the letter o).
C24_NormalizeFoldsKeepsButCompat == C24_Holds([c \in {"º"} |-> "o"])

\* normalize_text was applied twice to a string with leading whitespace, an
\* accented letter and an ordinal indicator.
C24_Witness ==
    /\ call.fn = "normalize_text" /\ pc = "renormalized"
    /\ ret.first = <<" ", "á", "º">>
    /\ ret.out = <<"a", "o">>

\* The strategy a name stands for, in lower case; "" for no strategy name.
C25_Strategy(name) ==
    CASE name = "id" -> "id" [] name = "css" -> "css selector" [] name = "xpath" -> "xpath"
      [] name = "name" -> "name" [] OTHER -> ""

\* The strategy names in the letter cases that occur.
C25_Spellings(name) ==
    CASE name = "id" -> {"id", "ID", "Id", "iD"}
      [] name = "css" -> {"css", "CSS", "Css", "cSS", "CsS"}
      [] name = "xpath" -> {"xpath", "XPATH", "XPath", "Xpath", "xPATH"}
      [] OTHER -> {"name", "NAME", "Name", "nAmE"}

C25_Names == {"id", "css", "xpath", "name"}

\* C25: by_from_string returns for every string, without raising: the
\* strategy of id, css, xpath or name for that name in any letter case, and the
\* CSS strategy for every other string, the empty one included; the result
\* depends on the argument only, not on an earlier call.
C25_TotalCaseInsensitive ==
    (call.fn = "by_from_string" /\ pc = "returned") =>
        /\ \A n \in C25_Names : call.s \in C25_Spellings(n) => ret.by = C25_Strategy(n)
        /\ (\A n \in C25_Names : call.s \notin C25_Spellings(n)) => ret.by = "css selector"
        /\ \A i \in 1..Len(ret.earlier) : ret.earlier[i].s = call.s => ret.earlier[i].by = ret.by

\* by_from_string returned the XPATH strategy for "XPath" after it had
\* returned the CSS strategy for the empty string.
C25_Witness ==
    /\ call.fn = "by_from_string" /\ pc = "returned"
    /\ call.s = "XPath" /\ ret.by = "xpath"
    /\ ret.earlier = <<[s |-> "", by |-> "css selector"]>>

\* C26: every attempt of fill_select2 ends by blurring the element that holds
\* the focus, whatever its outcome: an attempt that returned True, one that
\* returned False and one that raised have all issued the blur as their last
\* step, before the next attempt or the return to the caller.
C26_EveryAttemptBlurs ==
    (call.fn = "fill_select2" /\ pc \in {"returned", "raised"}) =>
        \A k \in 1..ret.made : ret.trace[k][Len(ret.trace[k])] = "blur"

\* C27: close-stale runs at the start of every attempt, so when the attempt
\* clicks to open its widget no other composite-selector overlay is open on
\* the page, and at no time are two overlays open at once.
C27_NoCrossTalk ==
    (call.fn = "_attempt" /\ pc \in {"closed", "opened"}) =>
        /\ Len(ret.ops) > 0 /\ ret.ops[Len(ret.ops)].op = "wait.until_not open results"
        /\ pc = "opened" => ret.open_at_click \ {call.select_id} = {}
        /\ Cardinality(ret.open) <= 1

\* C28: for idRiesgo an attempt does not open the widget before its guard
\* has observed that idAseguradora holds a non-empty value and idRiesgo is not
\* disabled; the guard polls for at most 4 seconds in the attempt.
C28_OpensOnlyWhenReady ==
    (call.fn = "_attempt guard" /\ call.select_id = "idRiesgo" /\ pc # "call") =>
        /\ ret.end_ready = 4000
        /\ ret.opened =>
              /\ ret.polls > 0 /\ ~ret.last.raises
              /\ ret.last.a_present /\ ret.last.a_value # ""
              /\ ret.last.r_present /\ ~ret.last.r_disabled

\* A real row: its text can be read and, normalized, is not empty and holds
\* none of "buscando", "sin resultados", "seleccione".
C29_Real(r) ==
    /\ ~r.stale
    /\ normalize_text(r.text.chars) # << >>
    /\ \A w \in {<<"b", "u", "s", "c", "a", "n", "d", "o">>, <<"s", "i", "n", " ", "r", "e", "s", "u", "l", "t", "a", "d", "o", "s">>, <<"s", "e", "l", "e", "c", "c", "i", "o", "n", "e">>} : ~Contains(normalize_text(r.text.chars), w)

C29_Min(S) == CHOOSE i \in S : \A j \in S : i <= j

\* The row the priority order names, 0 when there is no real row.
C29_Priority ==
    LET rows == call.rows
        full == normalize_text(call.value)
        query == normalize_text(IF call.select_id = "idProductor" THEN HeadBeforeComma(call.value) ELSE call.value)
        real == {i \in 1..Len(rows) : C29_Real(rows[i])}
        equal == {i \in real : normalize_text(rows[i].text.chars) \in {full, query}}
        holds == {i \in real : Contains(normalize_text(rows[i].text.chars), full)
                                \/ Contains(normalize_text(rows[i].text.chars), query)}
    IN IF equal # {} THEN C29_Min(equal)
       ELSE IF holds # {} THEN C29_Min(holds)
       ELSE IF call.highlighted \in real THEN call.highlighted
       ELSE IF real # {} THEN C29_Min(real)
       ELSE 0

\* The rows that were committed: the target of a click or of a forced
\* selection, and the highlighted row an ENTER went to.
C29_Committed == {ret.ops[i].row : i \in 1..Len(ret.ops)} \ {0}

C29_ChosenByPriority ==
    /\ ret.chosen = C29_Priority
    /\ ret.chosen # 0 => C29_Real(call.rows[ret.chosen])
    /\ (\A i \in 1..Len(call.rows) : ~C29_Real(call.rows[i])) => ret.ops = << >>

\* C29: after the commit step the committed row is never a placeholder: it
\* is the chosen row, which is the first real row equal (normalized) to the
\* value or the query, else the first real row containing either, else the
\* highlighted real row, else the first real row; without a real row nothing
\* is committed.
C29_CommittedRowIsChosenRealRow ==
    (call.fn = "commit" /\ pc = "committed") =>
        /\ C29_ChosenByPriority
        /\ C29_Committed \subseteq {ret.chosen}

\* C29, amended: the chosen row is as above and every click or forced
\* selection goes to it; an ENTER is sent for idCliente only and commits the
\* row the page has highlighted, whichever it is.
C29_ExplicitCommitIsChosenRealRow ==
    (call.fn = "commit" /\ pc = "committed") =>
        /\ C29_ChosenByPriority
        /\ \A i \in 1..Len(ret.ops) :
              /\ ret.ops[i].op \in {"click", "force"} => ret.ops[i].row = ret.chosen
              /\ ret.ops[i].op = "ENTER" =>
                    (call.select_id = "idCliente" /\ ret.ops[i].row \in {0, call.highlighted})

\* For idCliente the row equal to the value was chosen, second in a list
\* whose first row is highlighted, and the ENTER committed that first row.
C29_Witness ==
    /\ call.fn = "commit" /\ pc = "committed"
    /\ call.select_id = "idCliente" /\ call.value = <<"P", "a", "z", ",", " ", "A">>
    /\ call.rows = <<Row(Text("Rio", <<"R", "i", "o">>), FALSE), Row(Text("Paz, A", <<"P", "a", "z", ",", " ", "A">>), FALSE)>>
    /\ call.highlighted = 1 /\ ret.chosen = 2
    /\ ret.ops = <<CommitOp("ENTER", 1, TRUE)>>

\* The ENTER sent to the search box did not commit: it raised, or the
\* rendered text shows no selection after it.
C30_EnterFailed ==
    \/ ~ret.ops[1].ok
    \/ ret.ops[1].row = 0
    \/ ~applied_text(call.rows[ret.ops[1].row].text.chars)

\* C30: for every composite selector, when a search box is present and a
\* real row exists the commit is made by ENTER sent to the search box; a row
\* is clicked only when there is no search box or the ENTER failed.
C30_EnterPreferred ==
    (call.fn = "commit" /\ pc = "committed") =>
        /\ (call.si /\ \E i \in 1..Len(call.rows) : C29_Real(call.rows[i])) =>
              (ret.ops # << >> /\ ret.ops[1].op = "ENTER")
        /\ (\E i \in 1..Len(ret.ops) : ret.ops[i].op = "click") =>
              (~call.si \/ (ret.ops[1].op = "ENTER" /\ C30_EnterFailed))

\* The check of the rendered text that follows the keystroke fails.
C31_CheckAfterEnterFails ==
    \/ ~call.enter_ok
    \/ call.highlighted = 0
    \/ call.rows[call.highlighted].stale
    \/ ~applied_text(Strip(call.rows[call.highlighted].text.chars))

\* The check of the rendered text that follows the click fails.
C31_CheckAfterClickFails ==
    ~call.click_applies \/ ~applied_text(Strip(call.rows[ret.chosen].text.chars))

\* C31: the forced selection is a last resort: it is issued for idCliente
\* only, and only after the confirm keystroke and then the click on the
\* chosen row were both tried in the same attempt and each was followed by a
\* failed check of the rendered text.
C31_ForcedSelectionLastResort ==
    (call.fn = "commit" /\ pc = "committed") =>
        \A i \in 1..Len(ret.ops) :
            ret.ops[i].op = "force" =>
                /\ call.select_id = "idCliente"
                /\ i = 3
                /\ ret.ops[1].op = "ENTER" /\ C31_CheckAfterEnterFails
                /\ ret.ops[2].op = "click" /\ ret.ops[2].row = ret.chosen /\ C31_CheckAfterClickFails

\* For idCliente the keystroke went to no highlighted row, the click on the
\* chosen row did not apply, and the selection was forced.
C31_Witness ==
    /\ call.fn = "commit" /\ pc = "committed"
    /\ call.select_id = "idCliente" /\ call.highlighted = 0 /\ ~call.click_applies
    /\ Len(ret.ops) = 3 /\ ret.ops[3] = CommitOp("force", ret.chosen, TRUE)

\* C32: for idRiesgo and idCliente an attempt is accepted as committed only
\* when the rendered text is verified and the hidden select holds a value: an
\* attempt after which either check fails is not reported as a success, so
\* fill_select2 does not return from it.
C32_AcceptedOnlyIfVerifiedAndHeld ==
    (call.fn = "fill_select2" /\ pc = "returned"
        /\ call.select_id \in {"idRiesgo", "idCliente"}) =>
        /\ call.outs[ret.made].rendered_ok
        /\ call.outs[ret.made].hidden_set

\* The trimmed text before the first comma of a value, the value itself when
\* it has no comma or that text is empty.
C33_BeforeComma(value) ==
    LET commas == {i \in 1..Len(value) : value[i] = ","} IN
    IF commas = {} THEN value
    ELSE LET k == CHOOSE i \in commas : \A j \in commas : i <= j
             text == SubSeq(value, 1, k - 1)
             ink == {i \in 1..Len(text) : text[i] # " "}
         IN IF ink = {} THEN value
            ELSE SubSeq(text, CHOOSE i \in ink : \A j \in ink : i <= j,
                              CHOOSE i \in ink : \A j \in ink : j <= i)

\* C33: the query is the value itself, except for idProductor (in
\* _fill_select2 of absanet.py also idCliente), where it is the trimmed text
\* before the first comma unless that text is empty; fill_select2 and
\* _fill_select2 compose the same query for every field id and value.
C33_SameQuery ==
    (call.fn = "query_text" /\ pc = "both") =>
        /\ ret.modular = IF call.select_id = "idProductor" THEN C33_BeforeComma(call.value)
                         ELSE call.value
        /\ ret.monolithic = IF call.select_id \in {"idProductor", "idCliente"}
                            THEN C33_BeforeComma(call.value) ELSE call.value
        /\ ret.modular = ret.monolithic

\* The operations of a call of fill_field that are the typing fallback's.
C34_TypingOps == { i \in 2..Len(ret.ops) : ret.ops[i].op \in {"clear", "send_keys"} }

\* C34: a call of fill_field for inicio_vigencia that located its element
\* first writes, whatever the selector's type and the translation table, the
\* date part of str(value) into the control by one script that also
\* dispatches input and change; it clears, types that same date part and
\* sends TAB only when the script raised, so it never both completed the
\* direct write and typed; and it runs no matcher and no widget algorithm.
C34_DateWrittenDirectly ==
    (call.fn = "fill_field" /\ pc \in {"returned", "raised"} /\ call.page.located
        /\ call.field_key = "inicio_vigencia") =>
        /\ ret.ops[2] = Op("execute_script", "inicio_vigencia", "value=,input,change",
                           PyStr(DatePart(py_str(call.value))), call.page.scriptOk)
        /\ ret.ops[2].ok => C34_TypingOps = {}
        /\ C34_TypingOps # {} => ~ret.ops[2].ok
        /\ \A i \in C34_TypingOps :
              ret.ops[i].arg \in {PyNone, PyStr("TAB"), PyStr(DatePart(py_str(call.value)))}
        /\ \A i \in 3..Len(ret.ops) :
              ret.ops[i].op \in {"clear", "send_keys"}
              \/ (ret.ops[i].op = "execute_script" /\ ret.ops[i].target = "blur")

\* fill_field wrote "01/01/2025" of "01/01/2025 00:00:00" by script into a
\* control typed select2 with a translation for the value, and typed nothing.
C34_Witness ==
    /\ call.fn = "fill_field" /\ pc = "returned"
    /\ call.field_key = "inicio_vigencia" /\ call.selector.type = "select2"
    /\ call.value = PyStr("01/01/2025 00:00:00") /\ call.value_map = DateValueMap
    /\ ret.ops[2].arg = PyStr("01/01/2025") /\ ret.ops[2].ok
    /\ C34_TypingOps = {}

C35_Prefix ==
    LET n == IF Len(call.value.chars) < 4 THEN Len(call.value.chars) ELSE 4
    IN [i \in 1..n |-> call.value.chars[i]]

\* The position of the last wait for result rows, 0 when the call made none.
C35_LastWait ==
    LET W == { i \in 1..Len(ret.ops) : ret.ops[i].op = "wait_rows" }
    IN IF W = {} THEN 0 ELSE CHOOSE i \in W : \A j \in W : j <= i

\* The operations after the waits, by name and argument.
C35_After == [i \in 1..(Len(ret.ops) - C35_LastWait) |->
                 <<ret.ops[C35_LastWait + i].op, ret.ops[C35_LastWait + i].arg>>]

\* The call completed one of the three ways of choosing: the click, ARROW_DOWN
\* then ENTER, or the plain ENTER.
C35_Chose ==
    \E i \in 1..Len(ret.ops) :
        \/ ret.ops[i].op = "click"
        \/ ret.ops[i].op = "send_keys" /\ ret.ops[i].arg = <<"ENTER">>

\* C35: fill_autocomplete clears the field, then types the first four
\* characters of the value and nothing more of it; when a results list renders
\* it clicks the first rendered option, and goes to the keyboard only when
\* that click did not go through: ARROW_DOWN then ENTER with the list on the
\* page; when no list ever appears it sends a plain ENTER; and after each of
\* these three the script dispatching change and blur is run, last.
C35_PrefixFirstOptionSignals ==
    (call.fn = "fill_autocomplete" /\ pc \in {"returned", "raised"}) =>
        /\ ret.ops[1].op \in {"clear", "clear_raises"} /\ ret.ops[1].target = "el"
        /\ Len(ret.ops) >= 2 =>
              /\ ret.ops[2].op \in {"send_keys", "send_keys_raises"}
              /\ ret.ops[2].arg = C35_Prefix
        /\ \A i \in 3..Len(ret.ops) :
              ret.ops[i].op \in {"send_keys", "send_keys_raises"} =>
                  ret.ops[i].arg \in {<<"ARROW_DOWN">>, <<"ENTER">>}
        /\ (C35_LastWait > 0 /\ ret.ops[C35_LastWait].list_open) =>
              /\ C35_After[1][1] \in {"click", "click_raises"}
              /\ ret.ops[C35_LastWait + 1].target = "options[0]"
              /\ C35_After[1][1] = "click" =>
                    C35_After = << <<"click", << >> >>, C35_After[2] >>
              /\ (C35_After[1][1] = "click_raises" /\ pc = "returned") =>
                    SubSeq(C35_After, 2, 3) =
                        << <<"send_keys", <<"ARROW_DOWN">> >>, <<"send_keys", <<"ENTER">> >> >>
        /\ (C35_LastWait > 0 /\ ~ret.ops[C35_LastWait].list_open /\ pc = "returned") =>
              /\ C35_After[1] = <<"send_keys", <<"ENTER">> >>
              /\ Len(C35_After) = 2
        /\ C35_Chose =>
              /\ pc = "returned"
              /\ ret.ops[Len(ret.ops)].op \in {"change_blur", "change_blur_raises"}
              /\ ret.ops[Len(ret.ops)].target = "el"
              /\ \A i \in 1..(Len(ret.ops) - 1) :
                    ret.ops[i].op \notin {"change_blur", "change_blur_raises"}

\* fill_autocomplete typed "Pere" of "Perez", found rows under the second
\* locator, had its click on the first row rejected, sent ARROW_DOWN and
\* ENTER, and dispatched change and blur.
C35_Witness ==
    /\ call.fn = "fill_autocomplete" /\ pc = "returned"
    /\ call.value.str = "Perez" /\ ret.ops[2].arg = <<"P", "e", "r", "e">>
    /\ Len(ret.ops) = 8
    /\ ret.ops[5].op = "click_raises"
    /\ ret.ops[6].arg = <<"ARROW_DOWN">> /\ ret.ops[7].arg = <<"ENTER">>
    /\ ret.ops[8].op = "change_blur"

\* The number of steps among the first n whose tab is set and differs from
\* the tab that is current when the step is reached.
RECURSIVE C37_TabChanges(_)
C37_TabChanges(n) ==
    IF n = 0 THEN 0
    ELSE C37_TabChanges(n - 1) + (IF C11_Switches(n) THEN 1 ELSE 0)

\* The "Switched to tab" lines of the log, in order.
C37_Notices == SelectSeq(logs, LAMBDA l : l.kind = "switched")

\* C37: in fill_from_plan every step whose tab T is set and differs from the
\* current tab gets its "Switched to tab: T" line and makes T the current
\* tab, whether the activation went through, failed or found the tab
\* unmapped: the calls of the tab navigator are those of the tab changes, one
\* per run of steps of one tab, each has its notice for its tab, the current
\* tab is the tab of the last call, and when fill_from_plan is over the log
\* has one line per step and one per tab change.
C37_NoticeAndTabOnEveryChange ==
    /\ tab_calls = C11_ExpectedCalls(IF pc = "raised" THEN idx ELSE idx - 1)
    /\ Len(C37_Notices) = Len(tab_calls)
    /\ \A k \in 1..Len(tab_calls) : C37_Notices[k].key = tab_calls[k][2]
    /\ tab_calls # << >> => current_tab = tab_calls[Len(tab_calls)][2]
    /\ pc \in {"done", "raised"} => Len(logs) = Len(plan) + C37_TabChanges(Len(plan))

\* The three inputs of the items modal in the order they are set: parameter
\* name, element id, value of the call.
C39_Inputs ==
    << <<"patente", "Patente", call.patente>>, <<"chasis", "Chasis", call.chasis>>,
       <<"motor", "Motor", call.motor>> >>

\* A value with which the block of an input runs: neither None nor empty.
C39_Given(v) == v \notin {PyNone, PyStr(""), PyInt(0)}

\* Did setting the k-th input fail.
C39_Failed(k) == call.page[C39_Inputs[k][2]] \in {"wait", "send"}

\* The log the claim has the call return for the first n inputs.
RECURSIVE C39_ExpectedLog(_)
C39_ExpectedLog(n) ==
    IF n = 0 THEN << >>
    ELSE C39_ExpectedLog(n - 1)
         \o (IF ~C39_Given(C39_Inputs[n][3]) THEN << >>
             ELSE (IF C39_Failed(n) THEN <<ItemsErrorLine(C39_Inputs[n][2])>> ELSE << >>)
                  \o <<ItemsFilledLine(C39_Inputs[n][1])>>)

\* C39: the log of fill_items_modal_fields has "Items: Filled <x>" for each
\* of patente, chasis, motor with a truthy value, in that order, whether or
\* not the input could be set, and right before it "ERROR: <id>: ..." when it
\* could not; a failing input does not keep the later ones from being
\* attempted; an input with a None or empty value has no line and the page is
\* not touched for it; anio and marca are never filled: no line and no page
\* interaction is theirs.
C39_FilledLoggedEvenOnFailure ==
    (call.fn = "fill_items_modal_fields" /\ pc = "returned") =>
        /\ ret.logs = C39_ExpectedLog(3)
        /\ \A k \in 1..3 :
              (\E i \in 1..Len(ret.ops) : ret.ops[i].field = C39_Inputs[k][2])
                  <=> C39_Given(C39_Inputs[k][3])
        /\ \A i \in 1..Len(ret.ops) : ret.ops[i].field \in {"Patente", "Chasis", "Motor"}
        /\ \A i \in 1..Len(ret.logs) : ret.logs[i].key \notin {"anio", "marca", "Anio", "Marca"}

\* fill_items_modal_fields, called with anio and marca set, could not find
\* Patente, logged the error and "Items: Filled patente" after it, skipped the
\* empty chasis and set motor.
C39_Witness ==
    /\ call.fn = "fill_items_modal_fields" /\ pc = "returned"
    /\ call.anio # PyNone /\ call.marca # PyNone
    /\ call.patente = PyStr("ABC123") /\ call.chasis = PyStr("") /\ call.page.Patente = "wait"
    /\ ret.logs = <<ItemsErrorLine("Patente"), ItemsFilledLine("patente"), ItemsFilledLine("motor")>>
    /\ Len(ret.ops) = 5

\* The number of characters the loop delivered before a send_keys raised.
C40_Delivered == IF call.page.raise_at = 0 THEN Len(call.query) ELSE call.page.raise_at - 1

\* C40: for idRiesgo the query is sent to the search input one character at
\* a time, in order, each character followed by the script that dispatches
\* input and keyup for it; when the send_keys of a character raises after k
\* characters were delivered, the whole query is sent by one more send_keys
\* with no clear in between, so that the input has then received the first k
\* characters followed by the whole query.
C40_SlowTypingThenWholeQuery ==
    (call.fn = "send_query" /\ pc \in {"returned", "raised"}
        /\ call.select_id = "idRiesgo" /\ call.page.has_input) =>
        LET k == C40_Delivered IN
        /\ ret.ops[1].op = "clear"
        /\ \A i \in 1..k :
              /\ ret.ops[2 * i] = TypeOp("send_keys", <<call.query[i]>>, TRUE)
              /\ ret.ops[2 * i + 1].op = "dispatch_input_keyup"
              /\ ret.ops[2 * i + 1].arg = <<call.query[i]>>
        /\ call.page.raise_at = 0 =>
              Len(ret.ops) = 2 * k + 1 /\ ret.received = call.query /\ pc = "returned"
        /\ call.page.raise_at # 0 =>
              /\ Len(ret.ops) = 2 * k + 3
              /\ ret.ops[2 * k + 2] = TypeOp("send_keys", <<call.query[k + 1]>>, FALSE)
              /\ ret.ops[2 * k + 3].op = "send_keys" /\ ret.ops[2 * k + 3].arg = call.query
              /\ pc = "returned" =>
                    ret.received = SubSeq(call.query, 1, k) \o call.query

\* The send_keys of the third character of "aba" raised: the input received
\* "ab" and then "aba".
C40_Witness ==
    /\ call.fn = "send_query" /\ pc = "returned"
    /\ call.select_id = "idRiesgo" /\ call.query = <<"a", "b", "a">>
    /\ call.page.raise_at = 3
    /\ ret.received = <<"a", "b", "a", "b", "a">>

\* The outcome lines of the log, one per step visited.
C36_Outcomes == SelectSeq(logs, LAMBDA l : l.kind # "switched")

\* C36: fill_from_plan terminates on every plan, each driver call returning:
\* it comes to its return having visited every step of the plan once, in plan
\* order, no step having made more than 3 attempts of fill_select2.
C36_TerminatesVisitingEveryStep ==
    <>(/\ pc = "done"
       /\ idx = Len(plan) + 1
       /\ Len(raised) = Len(plan) /\ Len(attempts) = Len(plan)
       /\ \A i \in 1..Len(attempts) : Len(attempts[i]) <= SelectAttempts
       /\ Len(C36_Outcomes) = Len(plan)
       /\ \A i \in 1..Len(plan) : C36_Outcomes[i].key = plan[i][1])

====
